---- MODULE Spec2Model ----
(***************************************************************************)
(* go-unmaintained: the dependency classification pipeline.                *)
(*                                                                         *)
(* The model follows pkg/analyzer/analyzer.go (AnalyzeModule and the       *)
(* routes below AnalyzeDependency), pkg/parser (ParseModulePath and the    *)
(* well-known prefix tables), pkg/types (RepoInfo), pkg/cache (the disk    *)
(* cache), pkg/github (the primary-host client), pkg/providers and         *)
(* pkg/resolver.                                                           *)
(*                                                                         *)
(* Module paths are sequences of their '/'-separated elements, so that     *)
(* strings.Split and strings.HasPrefix on a "host/.../" prefix become      *)
(* operations on sequences.  Times are integers (days); Details strings    *)
(* are the constant part of the format string that builds them.            *)
(***************************************************************************)
EXTENDS Integers, Sequences, FiniteSets, TLC

\* ------------------------------------------------------------------ bounds

\* Longest dependency list the model explores.
MaxDeps == 2

\* ----------------------------------------------------------- configuration

\* concurrency = 5 when the configured value is <= 0
DefaultConcurrency == 5
\* Config.MaxAge and Config.CacheDuration, in days of the model's clock
MaxAge == 2
CacheDuration == 1
\* time.Now() when the run starts
StartTime == 4

\* ------------------------------------------------------------ module paths

GitHubHost == "github.com"

PathGitHub == <<"github.com", "a", "b">>
PathGitHubSub == <<"github.com", "a", "b", "sub">>
PathGitHubShort == <<"github.com", "a">>
PathGolangX == <<"golang.org", "x", "net">>
PathK8s == <<"k8s.io", "api">>
PathGitLab == <<"gitlab.com", "g", "p">>
PathBitbucket == <<"bitbucket.org", "o", "r">>
PathGopkg == <<"gopkg.in", "yaml.v3">>
PathVanity == <<"example.com", "x", "y">>
PathInvalid == <<"github.com", "", "b">>

\* module.CheckPath: every element is non-empty and the first one has a dot.
DottedHosts ==
    {"github.com", "golang.org", "k8s.io", "gitlab.com", "bitbucket.org",
     "gopkg.in", "example.com", "google.golang.org", "cloud.google.com",
     "go.uber.org", "sigs.k8s.io", "go.opentelemetry.io"}

IsValidModulePath(path) ==
    /\ Len(path) >= 1
    /\ \A k \in 1..Len(path) : path[k] # ""
    /\ path[1] \in DottedHosts

\* strings.HasPrefix(path, "p1/p2/"): the elements of the prefix, then a '/'
HasPathPrefix(path, prefix) ==
    /\ Len(path) > Len(prefix)
    /\ \A k \in 1..Len(prefix) : path[k] = prefix[k]

wellKnownPrefixes ==
    {<<"golang.org", "x">>, <<"google.golang.org">>, <<"cloud.google.com">>,
     <<"go.uber.org">>, <<"go.opentelemetry.io">>, <<"gopkg.in">>,
     <<"k8s.io">>, <<"sigs.k8s.io">>}

trustedPrefixes ==
    {<<"golang.org", "x">>, <<"google.golang.org">>, <<"cloud.google.com">>,
     <<"k8s.io">>, <<"sigs.k8s.io">>, <<"go.uber.org">>}

isWellKnownGoModule(path) == \E p \in wellKnownPrefixes : HasPathPrefix(path, p)

IsTrustedGoModule(path) == \E p \in trustedPrefixes : HasPathPrefix(path, p)

\* GetGitHubMapping: golang.org/x/<repo>[/...] maps to github.com/golang/<repo>
GetGitHubMapping(path) ==
    IF HasPathPrefix(path, <<"golang.org", "x">>)
    THEN [ok |-> TRUE, owner |-> "golang", repo |-> path[3]]
    ELSE [ok |-> FALSE, owner |-> "", repo |-> ""]

NoModuleInfo ==
    [Host |-> "", Owner |-> "", Repo |-> "",
     IsGitHub |-> FALSE, IsKnownHost |-> FALSE, IsValid |-> FALSE]

ParseModulePath(path) ==
    IF ~IsValidModulePath(path) THEN NoModuleInfo
    ELSE LET host == path[1]
             owner == IF Len(path) >= 3 THEN path[2] ELSE ""
             repo == IF Len(path) >= 3 THEN path[3] ELSE ""
         IN  [Host |-> host, Owner |-> owner, Repo |-> repo,
              IsGitHub |-> host = GitHubHost,
              IsKnownHost |-> \/ host \in {GitHubHost, "gitlab.com", "bitbucket.org"}
                              \/ isWellKnownGoModule(path),
              IsValid |-> TRUE]

\* ----------------------------------------------------------------- RepoInfo

\* types.RepoInfo, reduced to the fields the classification reads.  A pointer
\* is a sequence: <<>> for nil, <<v>> for a pointer to v.
RepoInfoNotExists ==
    [Exists |-> FALSE, IsArchived |-> FALSE, UpdatedAt |-> 0, LastCommitAt |-> <<>>]

latestActivity(info) ==
    IF info.LastCommitAt # <<>> /\ info.LastCommitAt[1] > info.UpdatedAt
    THEN info.LastCommitAt[1]
    ELSE info.UpdatedAt

\* An activity test that takes the last commit whenever there is one.
IsRepositoryActiveByCommit(info, maxAge, t) ==
    IF ~info.Exists THEN FALSE
    ELSE t - (IF info.LastCommitAt # <<>> THEN info.LastCommitAt[1] ELSE info.UpdatedAt)
           <= maxAge

IsRepositoryActive(info, maxAge, t) ==
    IF ~info.Exists THEN FALSE ELSE t - latestActivity(info) <= maxAge

DaysSinceLastActivity(info, t) ==
    IF ~info.Exists THEN -1 ELSE t - latestActivity(info)

\* ----------------------------------------------------------------- versions

\* golang.org/x/mod/semver on the version strings of the model:
\* <<major, minor, patch, release>>, release = 0 for a pre-release, and <<>>
\* for a string that is no semantic version.
hasVPrefix(v) ==
    v \in {"v1.0.0", "v1.0.1", "v1.0.9", "v1.1.0", "v1.1.5", "v1.2.0", "v1.2.1",
           "v2.0.0", "v1.0.0-alpha", "vnext"}

withV(v) == IF hasVPrefix(v) THEN v ELSE "v" \o v

semverParse(v) ==
    CASE v = "v1.0.0" -> <<1, 0, 0, 1>>
      [] v = "v1.0.1" -> <<1, 0, 1, 1>>
      [] v = "v1.0.9" -> <<1, 0, 9, 1>>
      [] v = "v1.1.0" -> <<1, 1, 0, 1>>
      [] v = "v1.1.5" -> <<1, 1, 5, 1>>
      [] v = "v1.2.0" -> <<1, 2, 0, 1>>
      [] v = "v1.2.1" -> <<1, 2, 1, 1>>
      [] v = "v2.0.0" -> <<2, 0, 0, 1>>
      [] v = "v1.0.0-alpha" -> <<1, 0, 0, 0>>
      [] OTHER -> <<>>

semverIsValid(v) == semverParse(v) # <<>>

RECURSIVE lexLess(_, _, _)
lexLess(a, b, k) ==
    IF k > Len(a) THEN FALSE
    ELSE IF a[k] # b[k] THEN a[k] < b[k]
    ELSE lexLess(a, b, k + 1)

\* semver.Compare(a, b) < 0
semverLess(a, b) == lexLess(semverParse(a), semverParse(b), 1)

\* A version check that compares the operands as they are given.
isVersionOutdatedAsGiven(current, latest) ==
    IF current = "" \/ latest = "" THEN FALSE
    ELSE IF ~semverIsValid(current) \/ ~semverIsValid(latest) THEN FALSE
         ELSE semverLess(current, latest)

isVersionOutdated(current, latest) ==
    IF current = "" \/ latest = "" THEN FALSE
    ELSE LET c == withV(current)
             l == withV(latest)
         IN  IF ~semverIsValid(c) \/ ~semverIsValid(l) THEN FALSE
             ELSE semverLess(c, l)

\* ------------------------------------------------------------------ results

ReasonArchived == "repository_archived"
ReasonNotFound == "package_not_found"
ReasonStaleInactive == "stale_dependencies_inactive_repo"
ReasonOutdated == "outdated_version"
ReasonUnknown == "unknown_source"
ReasonActive == "active_maintained"

\* The zero value of Result.
ZeroResult ==
    [RepoInfo |-> <<>>, Package |-> <<>>, Reason |-> "", Details |-> "",
     CurrentVersion |-> "", LatestVersion |-> "", DependencyPath |-> <<>>,
     DaysSinceUpdate |-> 0, IsUnmaintained |-> FALSE, IsDirect |-> FALSE,
     IsRetracted |-> FALSE]

initResult(dep) ==
    [ZeroResult EXCEPT !.Package = dep.Path,
                       !.CurrentVersion = dep.Version,
                       !.IsDirect = ~dep.Indirect]

\* A caller that flags the dependency of a failed analysis.
errorResultFlagged(dep, err) ==
    [ZeroResult EXCEPT !.Package = dep.Path,
                       !.IsUnmaintained = TRUE,
                       !.Details = "Analysis error: " \o err]

\* The Result a caller of AnalyzeDependency builds from a returned error.
errorResult(dep, err) ==
    [ZeroResult EXCEPT !.Package = dep.Path,
                       !.Details = "Analysis error: " \o err]

\* Heuristics that take a repository that does not exist for an inactive one.
applyRepoHeuristicsNoExistence(result, repoInfo, source, maxAge, t) ==
    LET r == [result EXCEPT !.RepoInfo = <<repoInfo>>,
                            !.DaysSinceUpdate = DaysSinceLastActivity(repoInfo, t)]
    IN  IF repoInfo.IsArchived
        THEN [r EXCEPT !.IsUnmaintained = TRUE, !.Reason = ReasonArchived,
                       !.Details = source \o " repository is archived"]
        ELSE IF ~IsRepositoryActive(repoInfo, maxAge, t)
        THEN [r EXCEPT !.IsUnmaintained = TRUE, !.Reason = ReasonStaleInactive,
                       !.Details = source \o " repository inactive"]
        ELSE [r EXCEPT !.Reason = ReasonActive,
                       !.Details = "Active " \o source \o " repository"]

applyRepoHeuristics(result, repoInfo, source, maxAge, t) ==
    LET r == [result EXCEPT !.RepoInfo = <<repoInfo>>,
                            !.DaysSinceUpdate = DaysSinceLastActivity(repoInfo, t)]
    IN  IF ~repoInfo.Exists
        THEN [r EXCEPT !.IsUnmaintained = TRUE, !.Reason = ReasonNotFound,
                       !.Details = source \o " repository not found"]
        ELSE IF repoInfo.IsArchived
        THEN [r EXCEPT !.IsUnmaintained = TRUE, !.Reason = ReasonArchived,
                       !.Details = source \o " repository is archived"]
        ELSE IF ~IsRepositoryActive(repoInfo, maxAge, t)
        THEN [r EXCEPT !.IsUnmaintained = TRUE, !.Reason = ReasonStaleInactive,
                       !.Details = source \o " repository inactive"]
        ELSE [r EXCEPT !.Reason = ReasonActive,
                       !.Details = "Active " \o source \o " repository"]

\* Heuristics that ask for the activity before the archived flag.
applyHeuristicsStaleFirst(result, dep, checkOutdated, maxAge, t) ==
    LET repoInfo == result.RepoInfo[1]
    IN  IF ~repoInfo.Exists
        THEN [result EXCEPT !.IsUnmaintained = TRUE, !.Reason = ReasonNotFound,
                            !.Details = "Repository not found"]
        ELSE IF ~IsRepositoryActive(repoInfo, maxAge, t)
        THEN [result EXCEPT !.IsUnmaintained = TRUE, !.Reason = ReasonStaleInactive,
                            !.Details = "Repository inactive"]
        ELSE IF repoInfo.IsArchived
        THEN [result EXCEPT !.IsUnmaintained = TRUE, !.Reason = ReasonArchived,
                            !.Details = "Repository is archived"]
        ELSE IF /\ checkOutdated
                /\ result.LatestVersion # ""
                /\ isVersionOutdated(dep.Version, result.LatestVersion)
        THEN [result EXCEPT !.IsUnmaintained = TRUE, !.Reason = ReasonOutdated,
                            !.Details = "Using outdated version"]
        ELSE [result EXCEPT !.Reason = ReasonActive,
                            !.Details = "Active repository"]

\* result.RepoInfo, DaysSinceUpdate and LatestVersion are set by analyzeGitHub.
applyHeuristics(result, dep, checkOutdated, maxAge, t) ==
    LET repoInfo == result.RepoInfo[1]
    IN  IF ~repoInfo.Exists
        THEN [result EXCEPT !.IsUnmaintained = TRUE, !.Reason = ReasonNotFound,
                            !.Details = "Repository not found"]
        ELSE IF repoInfo.IsArchived
        THEN [result EXCEPT !.IsUnmaintained = TRUE, !.Reason = ReasonArchived,
                            !.Details = "Repository is archived"]
        ELSE IF ~IsRepositoryActive(repoInfo, maxAge, t)
        THEN [result EXCEPT !.IsUnmaintained = TRUE, !.Reason = ReasonStaleInactive,
                            !.Details = "Repository inactive"]
        ELSE IF /\ checkOutdated
                /\ result.LatestVersion # ""
                /\ isVersionOutdated(dep.Version, result.LatestVersion)
        THEN [result EXCEPT !.IsUnmaintained = TRUE, !.Reason = ReasonOutdated,
                            !.Details = "Using outdated version"]
        ELSE [result EXCEPT !.Reason = ReasonActive,
                            !.Details = "Active repository"]

\* ------------------------------------------------------ popular-package cache

PathPopular == <<"github.com", "pop", "old">>
PathPopularInactive == <<"github.com", "pop", "idle">>
PathPopularNotFound == <<"github.com", "pop", "gone">>
PathPopularActive == <<"github.com", "pop", "live">>

StatusArchived == "archived"
StatusInactive == "inactive"
StatusNotFoundPopular == "not_found"
StatusActivePopular == "active"

\* defaultCache.index, built from the embedded data file.
PopularIndex ==
    [p \in {PathPopular, PathPopularInactive, PathPopularNotFound,
            PathPopularActive} |->
        [Package |-> p,
         Status |-> CASE p = PathPopular -> StatusArchived
                      [] p = PathPopularInactive -> StatusInactive
                      [] p = PathPopularNotFound -> StatusNotFoundPopular
                      [] OTHER -> StatusActivePopular,
         LastUpdated |-> 1, CacheBuiltAt |-> 3]]

\* popular.Lookup: <<>> when not found, <<entry>> when found
Lookup(pkg) == IF pkg \in DOMAIN PopularIndex THEN <<PopularIndex[pkg]>> ELSE <<>>

\* A resultFromPopularEntry that flags the archived entries only.
resultFromPopularEntryArchivedOnly(entry, dep, t) ==
    LET r == [ZeroResult EXCEPT !.Package = dep.Path,
                                !.CurrentVersion = dep.Version,
                                !.IsDirect = ~dep.Indirect,
                                !.DaysSinceUpdate = t - entry.LastUpdated]
    IN  IF entry.Status = StatusArchived
        THEN [r EXCEPT !.IsUnmaintained = TRUE, !.Reason = ReasonArchived,
                       !.Details = "Repository is archived"]
        ELSE [r EXCEPT !.Reason = ReasonActive, !.Details = "Active repository"]

resultFromPopularEntry(entry, dep, t) ==
    LET daysSinceUpdate == t - entry.LastUpdated
        daysSinceCacheBuild == t - entry.CacheBuiltAt
        cacheAgeInfo == IF daysSinceCacheBuild > 0 THEN " (cache built days ago)" ELSE ""
        r == [ZeroResult EXCEPT !.Package = dep.Path,
                                !.CurrentVersion = dep.Version,
                                !.IsDirect = ~dep.Indirect,
                                !.DaysSinceUpdate = daysSinceUpdate]
    IN  CASE entry.Status = StatusArchived ->
               [r EXCEPT !.IsUnmaintained = TRUE, !.Reason = ReasonArchived,
                         !.Details = "Repository is archived" \o cacheAgeInfo]
          [] entry.Status = StatusInactive ->
               [r EXCEPT !.IsUnmaintained = TRUE, !.Reason = ReasonStaleInactive,
                         !.Details = "Repository inactive" \o cacheAgeInfo]
          [] entry.Status = StatusNotFoundPopular ->
               [r EXCEPT !.IsUnmaintained = TRUE, !.Reason = ReasonNotFound,
                         !.Details = "Repository not found" \o cacheAgeInfo]
          [] entry.Status = StatusActivePopular ->
               [r EXCEPT !.Reason = ReasonActive,
                         !.Details = "Active repository" \o cacheAgeInfo]
          [] OTHER -> r

\* ----------------------------------------------------------------- resolver

StatusActive == "active"
StatusUnknown == "unknown"
StatusNotFound == "not_found"
StatusRedirect == "redirect"
StatusUnavailable == "unavailable"

\* An HTTP exchange of the resolver: kind "status" carries the response's
\* status code and Location header, kind "error" is a failed round trip.
HttpError == [kind |-> "error", status |-> 0, location |-> ""]
HttpStatus(code, loc) == [kind |-> "status", status |-> code, location |-> loc]

\* A probe of the module proxy that reports a failed request as a result.
tryGoModuleProxyUnreachable(resp) ==
    IF resp.kind = "error"
    THEN <<[Status |-> StatusUnavailable, HostingProvider |-> "Go Module Proxy",
            Details |-> "Go module proxy unreachable"]>>
    ELSE     CASE resp.status = 200 ->
                    <<[Status |-> StatusActive, HostingProvider |-> "Go Module Proxy",
                       Details |-> "Available in Go module proxy"]>>
               [] resp.status \in {404, 410} ->
                    <<[Status |-> StatusNotFound, HostingProvider |-> "Go Module Proxy",
                       Details |-> "Not found in Go module proxy"]>>
               [] OTHER ->
                    <<[Status |-> StatusUnavailable, HostingProvider |-> "Go Module Proxy",
                       Details |-> "Go module proxy returned status"]>>

\* tryGoModuleProxy: <<>> for nil
tryGoModuleProxy(resp) ==
    IF resp.kind = "error" THEN <<>>
    ELSE     CASE resp.status = 200 ->
                    <<[Status |-> StatusActive, HostingProvider |-> "Go Module Proxy",
                       Details |-> "Available in Go module proxy"]>>
               [] resp.status \in {404, 410} ->
                    <<[Status |-> StatusNotFound, HostingProvider |-> "Go Module Proxy",
                       Details |-> "Not found in Go module proxy"]>>
               [] OTHER ->
                    <<[Status |-> StatusUnavailable, HostingProvider |-> "Go Module Proxy",
                       Details |-> "Go module proxy returned status"]>>

\* One iteration of tryVanityURL's loop over the schemes: <<>> when the loop
\* goes on to the next scheme (or ends with nil), <<result>> when it returns.
tryVanityScheme(resp, scheme) ==
    IF resp.kind = "error" THEN <<>>
    ELSE CASE resp.status = 200 ->
                <<[Status |-> StatusActive, HostingProvider |-> "Vanity URL",
                   Details |-> "Vanity URL accessible via " \o scheme]>>
           [] resp.status \in {301, 302, 307, 308} ->
                IF resp.location # ""
                THEN <<[Status |-> StatusRedirect, HostingProvider |-> "Vanity URL",
                        Details |-> "Redirects to " \o resp.location]>>
                ELSE <<>>
           [] resp.status \in {404, 410} ->
                <<[Status |-> StatusNotFound, HostingProvider |-> "Vanity URL",
                   Details |-> "Vanity URL not found"]>>
           [] OTHER -> <<>>

\* tryWellKnownPatterns never returns nil
tryWellKnownPatterns(modulePath, moduleInfo) ==
    LET active(provider, details) ==
            [Status |-> StatusActive, HostingProvider |-> provider, Details |-> details]
    IN  CASE HasPathPrefix(modulePath, <<"golang.org", "x">>) ->
               active("golang.org", "Official Go extended package")
          [] HasPathPrefix(modulePath, <<"google.golang.org">>) ->
               active("google.golang.org", "Google Go package")
          [] HasPathPrefix(modulePath, <<"cloud.google.com">>) ->
               active("cloud.google.com", "Google Cloud package")
          [] HasPathPrefix(modulePath, <<"go.uber.org">>) ->
               active("go.uber.org", "Uber Go package")
          [] HasPathPrefix(modulePath, <<"gopkg.in">>) ->
               active("gopkg.in", "gopkg.in package")
          [] HasPathPrefix(modulePath, <<"k8s.io">>)
               \/ HasPathPrefix(modulePath, <<"sigs.k8s.io">>) ->
               active("k8s.io", "Kubernetes package")
          [] OTHER ->
               [Status |-> StatusUnknown, HostingProvider |-> moduleInfo.Host,
                Details |-> IF moduleInfo.Owner # "" /\ moduleInfo.Repo # ""
                            THEN "Unknown hosting provider, may be self-hosted"
                            ELSE "Could not determine hosting provider"]

\* The switch of analyzeViaResolver on a non-nil ResolveModule result.
resolvedResult(dep, resolved) ==
    LET result == initResult(dep)
    IN  CASE resolved.Status = StatusActive ->
               [result EXCEPT !.Reason = ReasonActive,
                              !.Details = "Active non-GitHub dependency (" \o
                                          resolved.HostingProvider \o "): " \o resolved.Details]
          [] resolved.Status = StatusNotFound ->
               [result EXCEPT !.IsUnmaintained = TRUE, !.Reason = ReasonNotFound,
                              !.Details = "Module not found: " \o resolved.Details]
          [] resolved.Status = StatusUnavailable ->
               [result EXCEPT !.IsUnmaintained = TRUE,
                              !.Details = "Module unavailable (" \o
                                          resolved.HostingProvider \o "): " \o resolved.Details]
          [] OTHER ->
               [result EXCEPT !.Details = "Unknown status (" \o
                                          resolved.HostingProvider \o "): " \o resolved.Details]

\* The else branch of analyzeViaResolver: the resolver is not consulted.
unresolvedResult(dep, moduleInfo) ==
    [initResult(dep) EXCEPT !.Details =
        IF moduleInfo.IsKnownHost
        THEN "Non-GitHub dependency (" \o moduleInfo.Host \o ") - status unknown"
        ELSE "Unknown hosting provider (" \o moduleInfo.Host \o ") - status unknown"]

\* -------------------------------------------------------------- disk cache

\* fmt.Sprintf("%s_%s", owner, repo); the file name is its SHA-256.
cacheKey(owner, repo) == owner \o "_" \o repo

\* An expiry that sets in when the age reaches the duration.
entryExpiredAtDuration(entry, t) == t - entry.Timestamp >= CacheDuration

\* A cache is the directory's content: file key -> <<>> (no file) or <<entry>>.
entryExpired(entry, t) == t - entry.Timestamp > CacheDuration

\* GetRepoInfo: the hit flag ...
cacheHit(disabled, c, key, t) ==
    /\ ~disabled
    /\ c[key] # <<>>
    /\ ~entryExpired(c[key][1], t)

\* ... and the directory afterwards (an expired entry is removed)
cacheAfterGet(disabled, c, key, t) ==
    IF ~disabled /\ c[key] # <<>> /\ entryExpired(c[key][1], t)
    THEN [c EXCEPT ![key] = <<>>]
    ELSE c

\* The cache directory c.cacheDir: it exists and can be written; it exists and
\* has no room for a new file, so that os.WriteFile fails to create one, while
\* its files can be read and removed; or it does not exist.
DirOk == "ok"
DirFull == "full"
DirMissing == "missing"

\* A SetRepoInfo that does not ask whether the cache is disabled.
SetRepoInfoAlways(disabled, c, d, key, repoInfo, latestVersion, t) ==
    IF d # DirOk THEN c
    ELSE [c EXCEPT ![key] =
            <<[RepoInfo |-> repoInfo, Timestamp |-> t, Version |-> latestVersion]>>]

\* SetRepoInfo: the directory afterwards ...
SetRepoInfo(disabled, c, d, key, repoInfo, latestVersion, t) ==
    IF disabled \/ d # DirOk THEN c
    ELSE [c EXCEPT ![key] =
            <<[RepoInfo |-> repoInfo, Timestamp |-> t, Version |-> latestVersion]>>]

\* ... and the error it returns, "" for nil
SetRepoInfoErr(disabled, d) ==
    IF ~disabled /\ d # DirOk THEN "failed to write cache entry" ELSE ""

\* GetRepoInfo's return values: info is <<>> for nil
GetRepoInfo(disabled, c, key, t) ==
    IF cacheHit(disabled, c, key, t)
    THEN [info |-> <<c[key][1].RepoInfo>>, version |-> c[key][1].Version, hit |-> TRUE]
    ELSE [info |-> <<>>, version |-> "", hit |-> FALSE]

\* Clear: os.RemoveAll(c.cacheDir) removes the files and the directory, and
\* returns nil also when there is no directory.
Clear(disabled, c, d) ==
    IF disabled THEN [cache |-> c, dir |-> d, err |-> ""]
    ELSE [cache |-> [k \in DOMAIN c |-> <<>>], dir |-> DirMissing, err |-> ""]

\* CleanExpired: os.ReadDir fails without the directory; a file is removed
\* when its modification time, the time of the SetRepoInfo that wrote it, is
\* longer ago than the duration.
CleanExpired(disabled, c, d, t) ==
    IF disabled THEN [cache |-> c, err |-> ""]
    ELSE IF d = DirMissing THEN [cache |-> c, err |-> "no such file or directory"]
    ELSE [cache |-> [k \in DOMAIN c |->
                        IF c[k] # <<>> /\ entryExpired(c[k][1], t) THEN <<>> ELSE c[k]],
          err |-> ""]

\* GetStats: the number of .json files; 0 without the directory
GetStats(disabled, c, d) ==
    IF disabled \/ d = DirMissing THEN 0
    ELSE Cardinality({k \in DOMAIN c : c[k] # <<>>})

\* ------------------------------------------------------- the remote services

\* Timestamps the services report: longer ago than MaxAge, and within it.
OldTime == StartTime - MaxAge - 1
RecentTime == StartTime - 1

\* What a remote service answers to one request.  kind is "ok", "notfound",
\* "error" (the round trip or the decoding failed: err says which), "status"
\* (a resolver probe: status and location), or "unasked" before the first
\* request.  A service answers the same request the same way every time.
Response(kind, err, archived, time, version, status, location) ==
    [kind |-> kind, err |-> err, IsArchived |-> archived, time |-> time,
     version |-> version, status |-> status, location |-> location]

Unasked == Response("unasked", "", FALSE, 0, "", 0, "")
RespError(e) == Response("error", e, FALSE, 0, "", 0, "")
RespNotFound == Response("notfound", "", FALSE, 0, "", 0, "")
RespRepo(archived, time) == Response("ok", "", archived, time, "", 0, "")
RespTime(time) == Response("ok", "", FALSE, time, "", 0, "")
RespVersion(v) == Response("ok", "", FALSE, 0, v, 0, "")
RespStatus(code, loc) == Response("status", "", FALSE, 0, "", code, loc)

\* The error of a request whose context is cancelled.
Aborted == RespError("context canceled")

FetchErrors == {"network error"}

ReqKinds == {"repo", "commits", "tags", "provider", "proxy", "https", "http"}

Answers(req) ==
    CASE req \in {"repo", "provider"} ->
           {RespNotFound} \cup {RespError(e) : e \in FetchErrors}
             \cup {RespRepo(a, t) : a \in BOOLEAN, t \in {OldTime, RecentTime}}
      [] req = "commits" ->
           {RespError("network error")} \cup {RespTime(t) : t \in {OldTime, RecentTime}}
      [] req = "tags" ->
           {RespError("network error"), RespVersion("v2.0.0")}
      [] req = "proxy" ->
           {RespError("network error"), RespStatus(200, ""), RespStatus(404, ""),
            RespStatus(500, "")}
      [] OTHER ->
           {RespError("network error"), RespStatus(200, ""), RespStatus(404, ""),
            RespStatus(301, "https://elsewhere")}

\* ------------------------------------------------ AnalyzeDependency, by steps

\* AnalyzeDependency runs up to its first network request (a step that ends
\* with done = FALSE and the request in req) or to its return; every answer
\* then takes it to the next request or to its return.  A step yields
\*   done    the call has returned, with result
\*   route   the rule that classifies the dependency
\*   req     the request now in flight
\*   info    the RepoInfo fetched so far
\*   latest  the latest version fetched so far
\*   cache   the cache directory after the step
\*   reads   the step called cache.GetRepoInfo
\*   failed  the call returned an error, or a result that reports a failure
\*   writeErr  the error cache.SetRepoInfo returned to the step, "" for none
Returned(route, r, c, reads) ==
    [done |-> TRUE, result |-> r, route |-> route, req |-> "",
     info |-> RepoInfoNotExists, latest |-> "", cache |-> c, reads |-> reads,
     failed |-> FALSE, writeErr |-> ""]

\* The call has returned because the classification failed.
Failed(route, r, c, reads) == [Returned(route, r, c, reads) EXCEPT !.failed = TRUE]

Requesting(route, req, info, c, reads) ==
    [done |-> FALSE, result |-> ZeroResult, route |-> route, req |-> req,
     info |-> info, latest |-> "", cache |-> c, reads |-> reads, failed |-> FALSE,
     writeErr |-> ""]

\* analyzeGitHub after fetchRepoWithCache has returned repoInfo, latestVersion
githubResult(dep, repoInfo, latestVersion, cfg, t) ==
    applyHeuristics(
        [initResult(dep) EXCEPT !.RepoInfo = <<repoInfo>>,
                                !.DaysSinceUpdate = DaysSinceLastActivity(repoInfo, t),
                                !.LatestVersion = latestVersion],
        dep, cfg.CheckOutdated, MaxAge, t)

\* analyzeGitHub up to the request for the repository
analyzeGitHub(dep, moduleInfo, cfg, c, t) ==
    LET key == cacheKey(moduleInfo.Owner, moduleInfo.Repo)
        after == cacheAfterGet(cfg.NoCache, c, key, t)
    IN  IF cacheHit(cfg.NoCache, c, key, t)
        THEN Returned("github",
                 githubResult(dep, c[key][1].RepoInfo, c[key][1].Version, cfg, t),
                 after, TRUE)
        ELSE IF moduleInfo.Owner = "" \/ moduleInfo.Repo = ""
        THEN Failed("github",
                 errorResult(dep, "failed to get repository info: " \o
                                  "owner and repo name must be provided"),
                 after, TRUE)
        ELSE Requesting("github", "repo", RepoInfoNotExists, after, TRUE)

thirdPartyHosts == {"gitlab.com", "bitbucket.org"}

\* A routing that asks for the trusted modules before the GitHub mapping.
analyzeNonGitHubTrustedFirst(dep, moduleInfo, cfg, c) ==
    IF IsTrustedGoModule(dep.Path)
    THEN Returned("trusted",
             [initResult(dep) EXCEPT !.Reason = ReasonActive,
                                     !.Details = "Active (trusted)"],
             c, FALSE)
    ELSE IF GetGitHubMapping(dep.Path).ok
    THEN Requesting("mapping", "repo", RepoInfoNotExists, c, FALSE)
    ELSE IF moduleInfo.IsKnownHost /\ moduleInfo.Host \in thirdPartyHosts
    THEN Requesting("thirdparty", "provider", RepoInfoNotExists, c, FALSE)
    ELSE IF cfg.ResolveUnknown \/ moduleInfo.IsKnownHost
    THEN Requesting("resolver", "proxy", RepoInfoNotExists, c, FALSE)
    ELSE Returned("unresolved", unresolvedResult(dep, moduleInfo), c, FALSE)

\* A routing that calls the resolver only when ResolveUnknown is set.
analyzeNonGitHubOptInOnly(dep, moduleInfo, cfg, c) ==
    IF GetGitHubMapping(dep.Path).ok
    THEN Requesting("mapping", "repo", RepoInfoNotExists, c, FALSE)
    ELSE IF IsTrustedGoModule(dep.Path)
    THEN Returned("trusted",
             [initResult(dep) EXCEPT !.Reason = ReasonActive,
                                     !.Details = "Active (trusted)"],
             c, FALSE)
    ELSE IF moduleInfo.IsKnownHost /\ moduleInfo.Host \in thirdPartyHosts
    THEN Requesting("thirdparty", "provider", RepoInfoNotExists, c, FALSE)
    ELSE IF cfg.ResolveUnknown
    THEN Requesting("resolver", "proxy", RepoInfoNotExists, c, FALSE)
    ELSE Returned("unresolved", unresolvedResult(dep, moduleInfo), c, FALSE)

\* A routing without the rule of the trusted modules.
analyzeNonGitHubUntrusting(dep, moduleInfo, cfg, c) ==
    IF GetGitHubMapping(dep.Path).ok
    THEN Requesting("mapping", "repo", RepoInfoNotExists, c, FALSE)
    ELSE IF moduleInfo.IsKnownHost /\ moduleInfo.Host \in thirdPartyHosts
    THEN Requesting("thirdparty", "provider", RepoInfoNotExists, c, FALSE)
    ELSE IF cfg.ResolveUnknown \/ moduleInfo.IsKnownHost
    THEN Requesting("resolver", "proxy", RepoInfoNotExists, c, FALSE)
    ELSE Returned("unresolved", unresolvedResult(dep, moduleInfo), c, FALSE)

analyzeNonGitHub(dep, moduleInfo, cfg, c) ==
    IF GetGitHubMapping(dep.Path).ok
    THEN Requesting("mapping", "repo", RepoInfoNotExists, c, FALSE)
    ELSE IF IsTrustedGoModule(dep.Path)
    THEN Returned("trusted",
             [initResult(dep) EXCEPT !.Reason = ReasonActive,
                                     !.Details = "Active (trusted)"],
             c, FALSE)
    ELSE IF moduleInfo.IsKnownHost /\ moduleInfo.Host \in thirdPartyHosts
    THEN Requesting("thirdparty", "provider", RepoInfoNotExists, c, FALSE)
    ELSE IF cfg.ResolveUnknown \/ moduleInfo.IsKnownHost
    THEN Requesting("resolver", "proxy", RepoInfoNotExists, c, FALSE)
    ELSE Returned("unresolved", unresolvedResult(dep, moduleInfo), c, FALSE)

AnalyzeDependency(dep, cfg, c, t) ==
    LET moduleInfo == ParseModulePath(dep.Path)
    IN  IF dep.Replace
        THEN Returned("replace",
                 [initResult(dep) EXCEPT !.Details = "Skipped: has replace directive"],
                 c, FALSE)
        ELSE IF Lookup(dep.Path) # <<>>
        THEN Returned("popular", resultFromPopularEntry(Lookup(dep.Path)[1], dep, t),
                 c, FALSE)
        ELSE IF ~moduleInfo.IsValid
        THEN Failed("invalid",
                 [initResult(dep) EXCEPT !.Details = "Invalid module path format"],
                 c, FALSE)
        ELSE IF ~moduleInfo.IsGitHub
        THEN analyzeNonGitHub(dep, moduleInfo, cfg, c)
        ELSE analyzeGitHub(dep, moduleInfo, cfg, c, t)

\* github.Client.GetRepositoryInfo: the RepoInfo built from the answer to
\* Repositories.Get ...
repoInfoOf(resp) ==
    IF resp.kind = "ok"
    THEN [Exists |-> TRUE, IsArchived |-> resp.IsArchived,
          UpdatedAt |-> resp.time, LastCommitAt |-> <<>>]
    ELSE RepoInfoNotExists

\* ... and completed from the answer to Repositories.ListCommits, whose
\* failure is skipped
withLastCommit(info, resp) ==
    IF resp.kind = "ok" THEN [info EXCEPT !.LastCommitAt = <<resp.time>>] ELSE info

\* GitLabProvider and BitbucketProvider: the RepoInfo of a 200 answer.  The
\* Bitbucket endpoint has no archived flag.
providerRepoInfo(host, resp) ==
    [Exists |-> TRUE,
     IsArchived |-> IF host = "gitlab.com" THEN resp.IsArchived ELSE FALSE,
     UpdatedAt |-> resp.time,
     LastCommitAt |-> IF resp.time # 0 THEN <<resp.time>> ELSE <<>>]

\* cases.Title of the host's first label
hostName(host) == IF host = "gitlab.com" THEN "Gitlab" ELSE "Bitbucket"

\* A fetchRepoWithCache that returns the error of the cache write.
githubFetchedOrError(dep, moduleInfo, info, latest, cfg, c, d, t) ==
    IF SetRepoInfoErr(cfg.NoCache, d) # ""
    THEN [Failed("github",
              errorResult(dep, "failed to get repository info: " \o
                               SetRepoInfoErr(cfg.NoCache, d)),
              c, FALSE)
          EXCEPT !.writeErr = SetRepoInfoErr(cfg.NoCache, d)]
    ELSE Returned("github", githubResult(dep, info, latest, cfg, t),
             SetRepoInfo(cfg.NoCache, c, d, cacheKey(moduleInfo.Owner, moduleInfo.Repo),
                         info, latest, t),
             FALSE)

\* fetchRepoWithCache after the fetches: the cache write, whose error is
\* dropped, then analyzeGitHub's heuristics
githubFetched(dep, moduleInfo, info, latest, cfg, c, d, t) ==
    [Returned("github", githubResult(dep, info, latest, cfg, t),
         SetRepoInfo(cfg.NoCache, c, d, cacheKey(moduleInfo.Owner, moduleInfo.Repo),
                     info, latest, t),
         FALSE)
     EXCEPT !.writeErr = SetRepoInfoErr(cfg.NoCache, d)]

\* The answer resp to the request u.req of a call on route u.route.
OnResponse(dep, u, resp, cfg, c, d, t) ==
    LET moduleInfo == ParseModulePath(dep.Path)
        result == initResult(dep)
    IN  CASE u.route = "github" /\ u.req = "repo" ->
               IF resp.kind = "error"
               THEN Failed("github",
                        errorResult(dep, "failed to get repository info: " \o
                                         "failed to fetch repository: " \o resp.err),
                        c, FALSE)
               ELSE IF resp.kind = "notfound"
               THEN githubFetched(dep, moduleInfo, RepoInfoNotExists, "", cfg, c, d, t)
               ELSE Requesting("github", "commits", repoInfoOf(resp), c, FALSE)
          [] u.route = "github" /\ u.req = "commits" ->
               LET info == withLastCommit(u.info, resp)
               IN  IF cfg.CheckOutdated /\ info.Exists /\ ~info.IsArchived
                   THEN Requesting("github", "tags", info, c, FALSE)
                   ELSE githubFetched(dep, moduleInfo, info, "", cfg, c, d, t)
          [] u.route = "github" /\ u.req = "tags" ->
               githubFetched(dep, moduleInfo, u.info,
                   IF resp.kind = "ok" THEN resp.version ELSE "", cfg, c, d, t)
          [] u.route = "mapping" /\ u.req = "repo" ->
               IF resp.kind = "error"
               THEN Failed("mapping",
                        [result EXCEPT !.Details =
                            "Failed to fetch Go repository info: " \o
                            "failed to fetch repository: " \o resp.err],
                        c, FALSE)
               ELSE IF resp.kind = "notfound"
               THEN Returned("mapping",
                        applyRepoHeuristics(result, RepoInfoNotExists,
                            "Go extended package", MaxAge, t),
                        c, FALSE)
               ELSE Requesting("mapping", "commits", repoInfoOf(resp), c, FALSE)
          [] u.route = "mapping" /\ u.req = "commits" ->
               Returned("mapping",
                   applyRepoHeuristics(result, withLastCommit(u.info, resp),
                       "Go extended package", MaxAge, t),
                   c, FALSE)
          [] u.route = "thirdparty" ->
               IF resp.kind = "error"
               THEN Failed("thirdparty",
                        [result EXCEPT !.Details =
                            "Failed to fetch " \o moduleInfo.Host \o
                            " repository info: " \o resp.err],
                        c, FALSE)
               ELSE Returned("thirdparty",
                        applyRepoHeuristics(result,
                            IF resp.kind = "notfound" THEN RepoInfoNotExists
                            ELSE providerRepoInfo(moduleInfo.Host, resp),
                            hostName(moduleInfo.Host), MaxAge, t),
                        c, FALSE)
          [] u.route = "resolver" /\ u.req = "proxy" ->
               IF tryGoModuleProxy(resp) # <<>>
               THEN Returned("resolver", resolvedResult(dep, tryGoModuleProxy(resp)[1]),
                        c, FALSE)
               ELSE Requesting("resolver", "https", RepoInfoNotExists, c, FALSE)
          [] u.route = "resolver" /\ u.req = "https" ->
               IF tryVanityScheme(resp, "https") # <<>>
               THEN Returned("resolver",
                        resolvedResult(dep, tryVanityScheme(resp, "https")[1]), c, FALSE)
               ELSE Requesting("resolver", "http", RepoInfoNotExists, c, FALSE)
          [] u.route = "resolver" /\ u.req = "http" ->
               IF tryVanityScheme(resp, "http") # <<>>
               THEN Returned("resolver",
                        resolvedResult(dep, tryVanityScheme(resp, "http")[1]), c, FALSE)
               ELSE Returned("resolver",
                        resolvedResult(dep, tryWellKnownPatterns(dep.Path, moduleInfo)),
                        c, FALSE)

\* ------------------------------------------------------------------- inputs

Dep(path, version, indirect, replace) ==
    [Path |-> path, Version |-> version, Indirect |-> indirect, Replace |-> replace]

\* The dependencies a go.mod of the model may require.  Replace is TRUE for a
\* dependency with a replace directive (dep.Replace != nil).
DepSet ==
    {Dep(PathGitHub, "v1.0.0", FALSE, FALSE),
     Dep(PathGitHubSub, "v2.0.0", TRUE, FALSE),
     Dep(PathGitHubShort, "v1.0.0", FALSE, FALSE),
     Dep(PathGitHub, "v1.0.0", FALSE, TRUE),
     Dep(PathPopular, "v1.0.0", TRUE, FALSE),
     Dep(PathGolangX, "v1.0.0", TRUE, FALSE),
     Dep(PathK8s, "v1.0.0", FALSE, FALSE),
     Dep(PathGitLab, "v1.0.0", TRUE, FALSE),
     Dep(PathBitbucket, "v1.0.0", FALSE, FALSE),
     Dep(PathGopkg, "v1.0.0", FALSE, FALSE),
     Dep(PathVanity, "v1.0.0", TRUE, FALSE),
     Dep(PathInvalid, "v1.0.0", FALSE, FALSE)}

\* The dependencies of the go.mod files with several requirements: two modules
\* of one GitHub repository (one of them indirect), a replaced module of the
\* same repository, a GitLab project and a path that is not valid, so that
\* every tier of the concurrent mode can hold several of them.
BatchDepSet ==
    {Dep(PathGitHub, "v1.0.0", FALSE, FALSE),
     Dep(PathGitHubSub, "v2.0.0", TRUE, FALSE),
     Dep(PathGitHub, "v1.0.0", FALSE, TRUE),
     Dep(PathGitLab, "v1.0.0", TRUE, FALSE),
     Dep(PathInvalid, "v1.0.0", FALSE, FALSE)}

IsInjective(ds) == \A i, j \in 1..Len(ds) : ds[i] = ds[j] => i = j

\* The go.mod files of the model: none or one requirement, of any kind, or up
\* to MaxDeps different requirements of BatchDepSet.
DepLists ==
    UNION {[1..n -> DepSet] : n \in 0..1}
      \cup {ds \in UNION {[1..n -> BatchDepSet] : n \in 2..MaxDeps} : IsInjective(ds)}

\* The repository, project or module a dependency's requests are about.
targetOf(dep) ==
    LET m == ParseModulePath(dep.Path)
        g == GetGitHubMapping(dep.Path)
    IN  IF g.ok THEN <<GitHubHost, g.owner, g.repo>>
        ELSE IF m.IsGitHub \/ m.Host \in thirdPartyHosts THEN <<m.Host, m.Owner, m.Repo>>
        ELSE dep.Path

Targets == {targetOf(d) : d \in DepSet}

\* The files the cache directory may hold.
CacheKeys ==
    {cacheKey(ParseModulePath(d.Path).Owner, ParseModulePath(d.Path).Repo) :
        d \in {e \in DepSet : ParseModulePath(e.Path).IsGitHub}}

\* Largest configured concurrency the model explores.
MaxConcurrency == 1

\* Config.Token of an analyzer that was constructed.
ValidToken == "token"

Configs ==
    [AsyncMode : BOOLEAN, Concurrency : 0..MaxConcurrency, NoCache : BOOLEAN,
     CheckOutdated : BOOLEAN, ResolveUnknown : BOOLEAN, ShowDepPath : BOOLEAN,
     Verbose : BOOLEAN, Token : {ValidToken}]

\* What an earlier run may have left in the cache for github.com/a/b: an entry
\* written CacheDuration ago or less, or one older than that.
CachedInfos ==
    {RepoInfoNotExists,
     [Exists |-> TRUE, IsArchived |-> TRUE, UpdatedAt |-> RecentTime,
      LastCommitAt |-> <<>>],
     [Exists |-> TRUE, IsArchived |-> FALSE, UpdatedAt |-> RecentTime,
      LastCommitAt |-> <<OldTime>>]}

CachedEntries ==
    {[RepoInfo |-> info, Timestamp |-> ts, Version |-> v] :
        info \in CachedInfos,
        ts \in {StartTime - CacheDuration - 1, StartTime - CacheDuration},
        v \in {"", "v2.0.0"}}

EmptyCache == [k \in CacheKeys |-> <<>>]

InitialCaches ==
    {EmptyCache} \cup
    {[EmptyCache EXCEPT ![cacheKey("a", "b")] = <<e>>] : e \in CachedEntries}

\* -------------------------------------------------------------------- state

VARIABLES
    deps,         \* mod.Dependencies
    config,       \* a.config
    goModWhy,     \* whether `go mod why` yields a chain for this project
    cacheAtStart, \* history: the cache directory when AnalyzeModule is called
    now,          \* the clock
    ctxDone,      \* the caller's context is cancelled or timed out
    cache,        \* the cache directory
    world,        \* the remote services' answers so far, by request and target
    pc,           \* where AnalyzeModule is
    cur,          \* the tier processBatch is working on (1 cached, 2 GitHub, 3 others)
    batches,      \* cachedDeps, githubDeps, otherDeps: per tier, its indices in order
    unit,         \* per dependency index, the goroutine or call analysing it
    semaphore,    \* per tier, the tokens in processBatch's semaphore channel
    resultsChan,  \* per tier, processBatch's resultsChan
    collected,    \* results processBatch has received so far
    results,      \* the results slice
    writes,       \* history: per slot of results, its writes: by 0 for the loop of
                  \* AnalyzeModule's goroutine, by i for the goroutine of index i, after
                  \* so many results of the same loop
    access,       \* history: per index, whether the cache was read and a request made
                  \* for it, whether its classification failed, whether a request
                  \* for it was in flight when the context was cancelled, and whether
                  \* its cache write failed
    dir,          \* the state of the cache directory
    call          \* history: the last call made on the cache or on a function

vars ==
    <<deps, config, goModWhy, cacheAtStart, now, ctxDone, cache, world, pc, cur, batches,
      unit,
      semaphore, resultsChan, collected, results, writes, access, dir, call>>

Indices == 1..Len(deps)

Tiers == 1..3

\* batch is the tier whose processBatch started the goroutine, 0 when none did
IdleUnit ==
    [pc |-> "idle", batch |-> 0, route |-> "", req |-> "", info |-> RepoInfoNotExists,
     result |-> ZeroResult]

NoAccess ==
    [cache |-> FALSE, net |-> FALSE, failed |-> FALSE, aborted |-> FALSE,
     writeFailed |-> FALSE]

\* The inputs a run with dependencies ds reads.  A run reads the cache
\* directory only when the cache is enabled and only the files of its GitHub
\* dependencies, ResolveUnknown only for a host that is not well known,
\* Concurrency only in concurrent mode, and runs `go mod why` only with
\* ShowDepPath in sequential mode; what a run never reads is left at its zero
\* value.
ReadsCacheOf(ds, key) ==
    \E i \in 1..Len(ds) :
        LET m == ParseModulePath(ds[i].Path)
        IN  m.IsGitHub /\ cacheKey(m.Owner, m.Repo) = key

ReadsResolveUnknown(ds) ==
    \E i \in 1..Len(ds) :
        LET m == ParseModulePath(ds[i].Path)
        IN  m.IsValid /\ ~m.IsKnownHost /\ ~ds[i].Replace

ReadsCheckOutdated(ds) ==
    \E i \in 1..Len(ds) :
        ParseModulePath(ds[i].Path).IsGitHub /\ ~ds[i].Replace
          /\ Lookup(ds[i].Path) = <<>>

\* A go.mod with several requirements is analysed with the version check, the
\* resolver's reporting and the dependency path switched off, and with a cache
\* directory that is empty or holds one fresh entry without a version.
BatchInputs(ds, cfg, why, c) ==
    Len(ds) > 1 =>
        /\ ~cfg.CheckOutdated /\ ~cfg.ResolveUnknown /\ ~cfg.ShowDepPath
        /\ \A k \in CacheKeys :
              c[k] # <<>> => c[k][1].Timestamp = StartTime - CacheDuration
                              /\ c[k][1].Version = ""
                              /\ c[k][1].RepoInfo.Exists

\* A run writes into the cache directory only when the cache is enabled and
\* only for a GitHub dependency whose repository it fetches.
WritesCache(ds, cfg) ==
    /\ ~cfg.NoCache
    /\ \E i \in 1..Len(ds) :
          ParseModulePath(ds[i].Path).IsGitHub /\ ~ds[i].Replace
            /\ Lookup(ds[i].Path) = <<>>

\* The cache directory exists when the analyzer is constructed (NewCache makes
\* it); it has room or not.  Verbose asks for the warnings of a run: the
\* model varies it for the runs of one dependency whose cache write fails.
DirAtStart(ds, cfg, d) ==
    /\ d \in {DirOk, DirFull}
    /\ d # DirOk => WritesCache(ds, cfg)
    /\ cfg.Verbose => (d # DirOk /\ Len(ds) = 1)

\* No call on the cache object or on a function of the model is recorded.
NoCall == [op |-> "none"]

InputsRead(ds, cfg, why, c) ==
    /\ ~cfg.AsyncMode => cfg.Concurrency = 0
    /\ cfg.ResolveUnknown => ReadsResolveUnknown(ds)
    /\ cfg.CheckOutdated => ReadsCheckOutdated(ds)
    /\ cfg.ShowDepPath => \E i \in 1..Len(ds) : ds[i].Indirect
    /\ why => cfg.ShowDepPath
    /\ \A k \in CacheKeys : c[k] # <<>> => ~cfg.NoCache /\ ReadsCacheOf(ds, k)

Init ==
    /\ deps \in DepLists
    /\ config \in Configs
    /\ goModWhy \in BOOLEAN
    /\ now = StartTime
    /\ ctxDone = FALSE
    /\ cache \in InitialCaches
    /\ cacheAtStart = cache
    /\ InputsRead(deps, config, goModWhy, cache)
    /\ BatchInputs(deps, config, goModWhy, cache)
    /\ dir \in {DirOk, DirFull}
    /\ DirAtStart(deps, config, dir)
    /\ call = NoCall
    /\ world = [k \in ReqKinds \X Targets |-> Unasked]
    /\ pc = "start"
    /\ cur = 0
    /\ batches = [k \in Tiers |-> <<>>]
    /\ unit = [i \in Indices |-> IdleUnit]
    /\ semaphore = [k \in Tiers |-> 0]
    /\ resultsChan = [k \in Tiers |-> <<>>]
    /\ collected = 0
    /\ results = <<>>
    /\ writes = [i \in Indices |-> <<>>]
    /\ access = [i \in Indices |-> NoAccess]

\* ----------------------------------------------------------- AnalyzeModule

\* A maxInt that returns its second argument.
maxIntSecond(a, b) == b

\* concurrency := a.config.Concurrency; if concurrency <= 0 { concurrency = 5 }
concurrencyOf(cfg) ==
    IF cfg.Concurrency <= 0 THEN DefaultConcurrency ELSE cfg.Concurrency

maxInt(a, b) == IF a > b THEN a ELSE b

\* The batchConcurrency analyzeModuleConcurrent passes to processBatch.
batchConcurrency(k, cfg) ==
    CASE k = 1 -> concurrencyOf(cfg) * 2
      [] k = 2 -> concurrencyOf(cfg)
      [] OTHER -> maxInt(1, concurrencyOf(cfg) \div 2)

\* The partition loop's choice for one dependency: cachedDeps, githubDeps or
\* otherDeps, given the cache directory c.
tierOf(dep, cfg, c, t) ==
    LET moduleInfo == ParseModulePath(dep.Path)
    IN  IF /\ ~cfg.NoCache
           /\ moduleInfo.IsGitHub
           /\ cacheHit(cfg.NoCache, c, cacheKey(moduleInfo.Owner, moduleInfo.Repo), t)
        THEN 1
        ELSE IF moduleInfo.IsGitHub THEN 2 ELSE 3

\* A partition loop without its continue: a cached dependency is also put
\* with the GitHub dependencies.
partitionStepNoContinue(part, i, dep, cfg, t) ==
    LET moduleInfo == ParseModulePath(dep.Path)
        key == cacheKey(moduleInfo.Owner, moduleInfo.Repo)
        hit == /\ ~cfg.NoCache /\ moduleInfo.IsGitHub
               /\ cacheHit(cfg.NoCache, part.cache, key, t)
        cached == IF hit THEN [part.batches EXCEPT ![1] = Append(@, i)]
                  ELSE part.batches
        k == IF moduleInfo.IsGitHub THEN 2 ELSE 3
    IN  [batches |-> [cached EXCEPT ![k] = Append(@, i)],
         cache |-> IF ~cfg.NoCache /\ moduleInfo.IsGitHub
                   THEN cacheAfterGet(cfg.NoCache, part.cache, key, t)
                   ELSE part.cache]

\* One iteration of the partition loop, for the dependency at index i: the
\* tiers and the cache directory after it.
partitionStep(part, i, dep, cfg, t) ==
    LET moduleInfo == ParseModulePath(dep.Path)
        key == cacheKey(moduleInfo.Owner, moduleInfo.Repo)
        k == tierOf(dep, cfg, part.cache, t)
    IN  [batches |-> [part.batches EXCEPT ![k] = Append(@, i)],
         cache |-> IF ~cfg.NoCache /\ moduleInfo.IsGitHub
                   THEN cacheAfterGet(cfg.NoCache, part.cache, key, t)
                   ELSE part.cache]

\* The partition loop over deps[1..n], from the cache directory c.
RECURSIVE partition(_, _, _, _, _)
partition(ds, n, cfg, c, t) ==
    IF n = 0 THEN [batches |-> [k \in Tiers |-> <<>>], cache |-> c]
    ELSE partitionStep(partition(ds, n - 1, cfg, c, t), n, ds[n], cfg, t)

\* AnalyzeModule's dispatch on AsyncMode; in concurrent mode the partition loop
\* and make([]Result, len(mod.Dependencies)).
AnalyzeModule ==
    /\ pc = "start"
    /\ IF config.AsyncMode
       THEN /\ batches' = partition(deps, Len(deps), config, cache, now).batches
            /\ cache' = partition(deps, Len(deps), config, cache, now).cache
            /\ access' = [i \in Indices |->
                            [access[i] EXCEPT !.cache =
                                ~config.NoCache /\ ParseModulePath(deps[i].Path).IsGitHub]]
            /\ results' = [i \in Indices |-> ZeroResult]
            /\ pc' = "dispatch"
            /\ cur' = 1
       ELSE /\ pc' = "seq"
            /\ UNCHANGED <<batches, cache, access, results, cur>>
    /\ UNCHANGED <<dir, call, deps, config, goModWhy, cacheAtStart, now, ctxDone, world, unit, semaphore,
                   resultsChan, collected, writes>>

\* The indices processBatch is called with for tier k.
BatchIndices(k) == {batches[k][j] : j \in 1..Len(batches[k])}

\* Where analyzeModuleConcurrent goes after the batch of tier k.
AfterBatch(k) == IF k = 3 THEN "done" ELSE "dispatch"

\* A collecting loop that stops one result short.
batchCollectedEarly(received, k) == received >= Len(batches[k]) - 1

\* The collecting loop's condition is false: it has received every result of
\* the batch.
batchCollected(received, k) == received = Len(batches[k])

\* if len(xDeps) > 0 { a.processBatch(...) }: the channels are made, one
\* goroutine per dependency is started, each beginning at the semaphore, and
\* the collecting loop tests its condition for the first time.
Dispatch ==
    /\ pc = "dispatch"
    /\ IF BatchIndices(cur) = {}
       THEN /\ pc' = AfterBatch(cur)
            /\ cur' = IF cur = 3 THEN cur ELSE cur + 1
            /\ UNCHANGED <<unit, semaphore, resultsChan, collected>>
       ELSE /\ unit' = [i \in Indices |->
                          IF i \in BatchIndices(cur)
                          THEN [IdleUnit EXCEPT !.pc = "blocked", !.batch = cur]
                          ELSE unit[i]]
            /\ semaphore' = [semaphore EXCEPT ![cur] = 0]
            /\ resultsChan' = [resultsChan EXCEPT ![cur] = <<>>]
            /\ collected' = 0
            /\ IF batchCollected(0, cur)
               THEN /\ pc' = AfterBatch(cur)
                    /\ cur' = IF cur = 3 THEN cur ELSE cur + 1
               ELSE /\ pc' = "collect"
                    /\ UNCHANGED cur
    /\ UNCHANGED <<dir, call, deps, config, goModWhy, cacheAtStart, now, ctxDone, cache, world, batches, results,
                   writes, access>>

\* A semaphore channel with room for one token more.
CanAcquireOneMore(held, capacity) == held <= capacity

\* semaphore <- struct{}{} goes through while the channel has room
CanAcquire(held, capacity) == held < capacity

Acquire(i) ==
    /\ unit[i].pc = "blocked"
    /\ CanAcquire(semaphore[unit[i].batch], batchConcurrency(unit[i].batch, config))
    /\ semaphore' = [semaphore EXCEPT ![unit[i].batch] = @ + 1]
    /\ unit' = [unit EXCEPT ![i].pc = "running"]
    /\ UNCHANGED <<dir, call, deps, config, goModWhy, cacheAtStart, now, ctxDone, cache, world, pc, cur, batches,
                   resultsChan, collected, results, writes, access>>

\* The sequential loop's result for dep from AnalyzeDependency's result r:
\* the dependency path of an indirect unmaintained dependency is looked up.
\* `go mod why` runs under ctx.
withDependencyPath(r, dep, cfg, why, cancelled) ==
    IF cfg.ShowDepPath /\ r.IsUnmaintained /\ ~r.IsDirect /\ why /\ ~cancelled
    THEN [r EXCEPT !.DependencyPath = <<<<"main">>, dep.Path>>]
    ELSE r

\* What a step of the call for index i does to the call, the cache and the
\* history, and where its result goes when it has returned: appended to results
\* by the sequential loop, sent on resultsChan by processBatch's goroutine.
Advance(i, step) ==
    /\ cache' = step.cache
    /\ access' = [access EXCEPT ![i].cache = @ \/ step.reads,
                                ![i].net = @ \/ ~step.done,
                                ![i].failed = step.failed,
                                ![i].writeFailed = @ \/ step.writeErr # ""]
    /\ IF ~step.done
       THEN /\ unit' = [unit EXCEPT ![i] =
                          [pc |-> "net", batch |-> unit[i].batch, route |-> step.route, req |-> step.req,
                           info |-> step.info, result |-> ZeroResult]]
            /\ UNCHANGED <<resultsChan, results, writes>>
       ELSE IF config.AsyncMode
       THEN /\ unit' = [unit EXCEPT ![i] =
                          [pc |-> "sent", batch |-> unit[i].batch, route |-> step.route, req |-> "",
                           info |-> unit[i].info, result |-> step.result]]
            /\ resultsChan' = [resultsChan EXCEPT ![unit[i].batch] =
                                 Append(@, [index |-> i, result |-> step.result])]
            /\ UNCHANGED <<results, writes>>
       ELSE /\ unit' = [unit EXCEPT ![i] =
                          [pc |-> "exited", batch |-> unit[i].batch, route |-> step.route, req |-> "",
                           info |-> unit[i].info, result |-> step.result]]
            /\ results' = Append(results,
                              withDependencyPath(step.result, deps[i], config,
                                                 goModWhy, ctxDone))
            /\ writes' = [writes EXCEPT ![i] = Append(@, [by |-> 0, after |-> Len(results)])]
            /\ UNCHANGED resultsChan

\* The call a.AnalyzeDependency(ctx, dep), up to its first request.
StartUnit(i) ==
    /\ unit[i].pc = "running"
    /\ Advance(i, AnalyzeDependency(deps[i], config, cache, now))
    /\ UNCHANGED <<dir, call, deps, config, goModWhy, cacheAtStart, now, ctxDone, world, pc, cur, batches,
                   semaphore, collected>>

\* The request in flight ends: with the service's answer, or with the context's
\* error once the context is done.
Respond(i) ==
    /\ unit[i].pc = "net"
    /\ LET key == <<unit[i].req, targetOf(deps[i])>>
       IN  \E resp \in (IF ctxDone THEN {Aborted}
                        ELSE IF world[key] # Unasked THEN {world[key]}
                        ELSE Answers(unit[i].req)) :
              /\ world' = IF ctxDone THEN world ELSE [world EXCEPT ![key] = resp]
              /\ Advance(i, OnResponse(deps[i], unit[i], resp, config, cache, dir, now))
    /\ UNCHANGED <<dir, call, deps, config, goModWhy, cacheAtStart, now, ctxDone, pc, cur, batches, semaphore,
                   collected>>

\* defer func() { <-semaphore }(): the goroutine ends
Release(i) ==
    /\ unit[i].pc = "sent"
    /\ semaphore' = [semaphore EXCEPT ![unit[i].batch] = @ - 1]
    /\ unit' = [unit EXCEPT ![i].pc = "exited"]
    /\ UNCHANGED <<dir, call, deps, config, goModWhy, cacheAtStart, now, ctxDone, cache, world, pc, cur, batches,
                   resultsChan, collected, results, writes, access>>

\* A collecting loop that stores the results in the order of their arrival.
slotOfArrival(indexedRes, received) == received + 1

\* The slot processBatch's collecting loop writes for a received indexedResult.
slotOf(indexedRes, received) == indexedRes.index

\* indexedRes := <-resultsChan; results[indexedRes.index] = indexedRes.result
Collect ==
    /\ pc = "collect"
    /\ resultsChan[cur] # <<>>
    /\ LET indexedRes == Head(resultsChan[cur])
           slot == slotOf(indexedRes, collected)
       IN  /\ results' = [results EXCEPT ![slot] = indexedRes.result]
           /\ writes' = [writes EXCEPT ![slot] = Append(@, [by |-> 0, after |-> collected])]
    /\ resultsChan' = [resultsChan EXCEPT ![cur] = Tail(@)]
    /\ collected' = collected + 1
    /\ IF batchCollected(collected + 1, cur)
       THEN /\ pc' = AfterBatch(cur)
            /\ cur' = IF cur = 3 THEN cur ELSE cur + 1
       ELSE UNCHANGED <<pc, cur>>
    /\ UNCHANGED <<dir, call, deps, config, goModWhy, cacheAtStart, now, ctxDone, cache, world, batches, unit,
                   semaphore, access>>

\* The sequential loop takes the next dependency ...
SeqNext ==
    /\ pc = "seq"
    /\ Len(results) < Len(deps)
    /\ unit[Len(results) + 1].pc = "idle"
    /\ unit' = [unit EXCEPT ![Len(results) + 1].pc = "running"]
    /\ UNCHANGED <<dir, call, deps, config, goModWhy, cacheAtStart, now, ctxDone, cache, world, pc, cur, batches,
                   semaphore, resultsChan, collected, results, writes, access>>

\* ... and returns results after the last one.
SeqReturn ==
    /\ pc = "seq"
    /\ Len(results) = Len(deps)
    /\ pc' = "done"
    /\ UNCHANGED <<dir, call, deps, config, goModWhy, cacheAtStart, now, ctxDone, cache, world, cur, batches, unit,
                   semaphore, resultsChan, collected, results, writes, access>>

\* The caller cancels ctx, or its deadline passes.
Cancel ==
    /\ pc # "done"
    /\ ~ctxDone
    /\ ctxDone' = TRUE
    /\ access' = [i \in Indices |-> [access[i] EXCEPT !.aborted = unit[i].pc = "net"]]
    /\ UNCHANGED <<dir, call, deps, config, goModWhy, cacheAtStart, now, cache, world, pc, cur,
                   batches, unit, semaphore, resultsChan, collected, results, writes>>

Next ==
    \/ AnalyzeModule
    \/ Dispatch
    \/ \E i \in Indices : Acquire(i)
    \/ \E i \in Indices : StartUnit(i)
    \/ \E i \in Indices : Respond(i)
    \/ \E i \in Indices : Release(i)
    \/ Collect
    \/ SeqNext
    \/ SeqReturn
    \/ Cancel

Spec == Init /\ [][Next]_vars

\* ------------------------------------------------------------ AnalyzeModule's
\* ------------------------------------------------------------------- results

\* The result the caller finds at position i for the call's result r: the
\* sequential loop may have added the dependency path to it.
SameVerdict(found, r) == [found EXCEPT !.DependencyPath = <<>>] = r

\* C1: when AnalyzeModule has returned, in either mode, for every dependency
\* list, concurrency and order in which the units finished, the result list is
\* as long as the dependency list and its element i is the verdict that the
\* analysis of dependency i produced, for dependency i's path.
ResultsInInputOrder ==
    pc = "done" =>
        /\ Len(results) = Len(deps)
        /\ \A i \in Indices :
              /\ results[i].Package = deps[i].Path
              /\ SameVerdict(results[i], unit[i].result)

\* AnalyzeModule has returned in concurrent mode for two dependencies of one
\* tier with different verdicts, and the second one's result arrived first.
ResultsInInputOrderWitness ==
    /\ pc = "done"
    /\ config.AsyncMode
    /\ Len(deps) = 2
    /\ unit[1].batch = unit[2].batch
    /\ writes[2] # <<>> /\ writes[2][1].after = 0
    /\ results[1] # results[2]
    /\ results[2].IsUnmaintained

\* -------------------------------------------------- the two modes, compared

\* The call AnalyzeDependency(ctx, dep) run to its return from the step it has
\* reached, with the answers w of the services; determined is FALSE when it
\* makes a request w has no answer to.
RECURSIVE finishCall(_, _, _, _, _, _)
finishCall(dep, step, cfg, w, d, t) ==
    IF step.done THEN [result |-> step.result, cache |-> step.cache, determined |-> TRUE]
    ELSE LET resp == w[<<step.req, targetOf(dep)>>]
         IN  IF resp = Unasked
             THEN [result |-> ZeroResult, cache |-> step.cache, determined |-> FALSE]
             ELSE finishCall(dep,
                      OnResponse(dep,
                          [route |-> step.route, req |-> step.req, info |-> step.info],
                          resp, cfg, step.cache, d, t),
                      cfg, w, d, t)

\* analyzeModuleSequential over ds[1..n], from the cache directory c, with the
\* answers w and a context that is never cancelled.
RECURSIVE sequentialRun(_, _, _, _, _, _, _, _)
sequentialRun(ds, n, cfg, why, c, d, w, t) ==
    IF n = 0 THEN [results |-> <<>>, cache |-> c, determined |-> TRUE]
    ELSE LET before == sequentialRun(ds, n - 1, cfg, why, c, d, w, t)
             one == finishCall(ds[n], AnalyzeDependency(ds[n], cfg, before.cache, t),
                               cfg, w, d, t)
         IN  [results |-> Append(before.results,
                              withDependencyPath(one.result, ds[n], cfg, why, FALSE)),
              cache |-> one.cache,
              determined |-> before.determined /\ one.determined]

\* What sequential mode returns for this run's dependency list, configuration,
\* cache directory and service answers.
SequentialReference ==
    sequentialRun(deps, Len(deps), config, goModWhy, cacheAtStart, dir, world, now)

\* C2: for the same dependency list, configuration and service answers, and a
\* context that is not cancelled, the result list concurrent mode returns is
\* the result list sequential mode returns, element for element.
ConcurrentEqualsSequential ==
    (pc = "done" /\ config.AsyncMode /\ ~ctxDone /\ SequentialReference.determined) =>
        results = SequentialReference.results

\* The same, leaving the dependency path of the verdicts aside.
ConcurrentEqualsSequentialButPath ==
    (pc = "done" /\ config.AsyncMode /\ ~ctxDone /\ SequentialReference.determined) =>
        /\ Len(results) = Len(SequentialReference.results)
        /\ \A i \in Indices :
              SameVerdict(SequentialReference.results[i], results[i])

\* ------------------------------------------------------ tiers, slots and gate

\* How often index i occurs in the list of tier k.
Occurrences(k, i) == Cardinality({j \in 1..Len(batches[k]) : batches[k][j] = i})

InOneTier(i) == Occurrences(1, i) + Occurrences(2, i) + Occurrences(3, i) = 1

\* C3, as the spec has it: in concurrent mode every dependency index is in
\* exactly one tier once the partition is made, every result slot is written
\* at most once, exactly once when AnalyzeModule has returned, and the writer
\* of slot i is the unit of index i.
SlotWrittenOnceByItsUnit ==
    (config.AsyncMode /\ pc # "start") =>
        \A i \in Indices :
            /\ InOneTier(i)
            /\ Len(writes[i]) <= 1
            /\ \A w \in 1..Len(writes[i]) : writes[i][w].by = i
            /\ pc = "done" => Len(writes[i]) = 1

\* C3, as the code has it: in concurrent mode every dependency index is in
\* exactly one tier once the partition is made, every result slot is written
\* at most once, exactly once when AnalyzeModule has returned, and slot i is
\* written with the result the unit of index i has sent, by processBatch's
\* collecting loop: no unit writes a slot.
SlotWrittenOnceByCollector ==
    (config.AsyncMode /\ pc # "start") =>
        \A i \in Indices :
            /\ InOneTier(i)
            /\ Len(writes[i]) <= 1
            /\ \A w \in 1..Len(writes[i]) :
                  /\ writes[i][w].by = 0
                  /\ unit[i].pc \in {"sent", "exited"}
                  /\ results[i] = unit[i].result
            /\ pc = "done" => Len(writes[i]) = 1

\* AnalyzeModule has returned in concurrent mode for dependencies of two
\* tiers, one of them cached, and every slot is written.
SlotWrittenOnceWitness ==
    /\ pc = "done"
    /\ config.AsyncMode
    /\ Len(deps) = 2
    /\ batches[1] # <<>>
    /\ batches[3] # <<>>
    /\ \A i \in Indices : Len(writes[i]) = 1

\* The gate capacity of tier k for the configured concurrency.
GateCapacity(k) ==
    LET c == IF config.Concurrency <= 0 THEN 5 ELSE config.Concurrency
    IN  CASE k = 1 -> 2 * c
          [] k = 2 -> c
          [] k = 3 -> IF c \div 2 > 1 THEN c \div 2 ELSE 1

\* The units of tier k that have passed the gate and not left it.
Executing(k) ==
    {i \in Indices : unit[i].batch = k /\ unit[i].pc \in {"running", "net", "sent"}}

Completed(i) == unit[i].pc \in {"sent", "exited"} /\ writes[i] # <<>>

AloneVerdict(j) ==
    finishCall(deps[j], AnalyzeDependency(deps[j], config, cacheAtStart, now),
               config, world, dir, now)

\* C6: when AnalyzeModule has returned and the classification of a dependency
\* has failed (its metadata could not be fetched or decoded, or its path is
\* not valid), the result list is complete, the failed dependency's verdict is
\* not flagged unmaintained and has a detail text, and, unless the context
\* was cancelled, every dependency that did not fail has the verdict it gets
\* when analysed on its own.
FailureIsContained ==
    pc = "done" =>
        \A i \in Indices :
            access[i].failed =>
                /\ Len(results) = Len(deps)
                /\ results[i].Package = deps[i].Path
                /\ ~results[i].IsUnmaintained
                /\ results[i].Details # ""
                /\ \A j \in Indices :
                      (~access[j].failed /\ ~ctxDone /\ AloneVerdict(j).determined) =>
                          SameVerdict(results[j], AloneVerdict(j).result)

\* AnalyzeModule has returned; the fetch for the first dependency failed and
\* the second dependency, whose services answered, is flagged unmaintained.
FailureIsContainedWitness ==
    /\ pc = "done"
    /\ Len(deps) = 2
    /\ ~ctxDone
    /\ access[1].failed /\ access[1].net
    /\ ~access[2].failed /\ access[2].net
    /\ results[2].IsUnmaintained

\* -------------------------------------------------------------- cancellation

\* C7, its first part: a unit that had a request in flight when the context
\* was cancelled ends with a failure verdict, one that is not flagged
\* unmaintained.
CancelledUnitReportsFailure ==
    \A i \in Indices :
        (access[i].aborted /\ unit[i].pc \in {"sent", "exited"}) =>
            (access[i].failed /\ ~unit[i].result.IsUnmaintained)

\* ------------------------------------------------------------ order of rules

\* The first rule that matches dep in the order replace directive, (with
\* popular: a hit in the popular-package cache,) path validation, GitHub host,
\* GitHub mapping, trusted module, GitLab or Bitbucket host, resolver.
FirstRule(dep, popular) ==
    IF dep.Replace THEN "replace"
    ELSE IF popular /\ dep.Path \in DOMAIN PopularIndex THEN "popular"
    ELSE IF ~IsValidModulePath(dep.Path) THEN "invalid"
    ELSE IF dep.Path[1] = GitHubHost THEN "github"
    ELSE IF GetGitHubMapping(dep.Path).ok THEN "mapping"
    ELSE IF IsTrustedGoModule(dep.Path) THEN "trusted"
    ELSE IF dep.Path[1] \in thirdPartyHosts THEN "thirdparty"
    ELSE "fallback"

\* The rule a route of AnalyzeDependency stands for.
RuleOf(route) == IF route \in {"resolver", "unresolved"} THEN "fallback" ELSE route

\* The unit of index i has been routed.
Routed(i) == unit[i].pc \in {"net", "sent", "exited"}

\* What goes with the rules of a replace directive and of a path that is not
\* valid: the replaced dependency is skipped with no reason, the path is
\* reported as invalid, unflagged, and AnalyzeModule has neither read the
\* cache directory nor made a request for it.
ReplaceAndInvalid(i) ==
    /\ (unit[i].route = "replace" /\ unit[i].pc # "net") =>
          /\ unit[i].result.Reason = ""
          /\ ~unit[i].result.IsUnmaintained
          /\ unit[i].result.Details = "Skipped: has replace directive"
    /\ (unit[i].route = "invalid" /\ unit[i].pc # "net") =>
          /\ unit[i].result.Details = "Invalid module path format"
          /\ ~unit[i].result.IsUnmaintained
          /\ ~access[i].cache
          /\ ~access[i].net

\* C8, as the spec has it: every dependency is classified by the first rule
\* that matches it in the order replace directive, path validation, GitHub
\* host, GitHub mapping, trusted module, GitLab or Bitbucket host, resolver; a
\* replaced dependency is skipped with no reason and a path that is not valid
\* is reported as invalid with no cache access and no request.
ClassifiedInSpecOrder ==
    \A i \in Indices :
        Routed(i) =>
            /\ RuleOf(unit[i].route) = FirstRule(deps[i], FALSE)
            /\ ReplaceAndInvalid(i)

\* C8, as the code has it: the order has one rule more, a hit in the
\* popular-package cache, between the replace directive and the validation of
\* the path: replace directive, popular-package cache, path validation, GitHub
\* host, GitHub mapping, trusted module, GitLab or Bitbucket host, resolver.
\* Every dependency is classified by the first rule of this order that matches
\* it; a replaced dependency is skipped with no reason and a path that is not
\* valid is reported as invalid with no cache access and no request.
ClassifiedInCodeOrder ==
    \A i \in Indices :
        Routed(i) =>
            /\ RuleOf(unit[i].route) = FirstRule(deps[i], TRUE)
            /\ ReplaceAndInvalid(i)

\* A dependency on a GitHub path with an entry in the popular-package cache
\* has its verdict from the entry, with no cache access by its call and no
\* request.
ClassifiedInCodeOrderWitness ==
    \E i \in Indices :
        /\ unit[i].pc = "exited"
        /\ unit[i].route = "popular"
        /\ deps[i].Path[1] = GitHubHost
        /\ ~access[i].net
        /\ unit[i].result.IsUnmaintained

\* ------------------------------------------------------------- the heuristic

\* The unit of index i has ended with a verdict made from repository metadata.
HasMetadata(i) ==
    unit[i].pc \in {"sent", "exited"} /\ unit[i].result.RepoInfo # <<>>

\* The effective last activity of the metadata is longer ago than MaxAge.
IsStale(info) ==
    LET updated == info.UpdatedAt
        last == IF info.LastCommitAt # <<>> /\ info.LastCommitAt[1] > updated
                THEN info.LastCommitAt[1] ELSE updated
    IN  now - last > MaxAge

\* The version check is on, a latest version is known and the required
\* version is older.
IsOutdated(r) ==
    /\ config.CheckOutdated
    /\ r.LatestVersion # ""
    /\ semverIsValid(withV(r.CurrentVersion))
    /\ semverIsValid(withV(r.LatestVersion))
    /\ semverLess(withV(r.CurrentVersion), withV(r.LatestVersion))

\* The reason the heuristic gives to result r with metadata info, in its
\* order: not found, archived, stale, outdated, active.
ReasonInOrder(r, info) ==
    IF ~info.Exists THEN ReasonNotFound
    ELSE IF info.IsArchived THEN ReasonArchived
    ELSE IF IsStale(info) THEN ReasonStaleInactive
    ELSE IF IsOutdated(r) THEN ReasonOutdated
    ELSE ReasonActive

\* C9: every verdict made from metadata of an archived repository that exists
\* is unmaintained with reason archived, whatever its timestamps and versions;
\* and every verdict made from metadata has the reason of the first of: does
\* not exist, archived, stale, outdated version, and active when none of them
\* applies, and is unmaintained unless that reason is active.
HeuristicInOrder ==
    \A i \in Indices :
        HasMetadata(i) =>
            LET r == unit[i].result
                info == r.RepoInfo[1]
            IN  /\ (info.Exists /\ info.IsArchived) =>
                      (r.IsUnmaintained /\ r.Reason = ReasonArchived)
                /\ r.Reason = ReasonInOrder(r, info)
                /\ r.IsUnmaintained = (r.Reason # ReasonActive)

\* A verdict with reason archived for a repository that is archived, was
\* active within MaxAge, and has a latest version newer than the required one
\* while the version check is on.
HeuristicInOrderWitness ==
    \E i \in Indices :
        /\ HasMetadata(i)
        /\ unit[i].result.RepoInfo[1].IsArchived
        /\ ~IsStale(unit[i].result.RepoInfo[1])
        /\ IsOutdated(unit[i].result)
        /\ unit[i].result.Reason = ReasonArchived

\* C10: every verdict made from metadata, fetched or cached, of a repository
\* that does not exist is unmaintained with reason not found, on the routes
\* that obtain metadata: GitHub, GitHub mapping, GitLab and Bitbucket.
NotExistsIsNotFound ==
    \A i \in Indices :
        (HasMetadata(i) /\ ~unit[i].result.RepoInfo[1].Exists) =>
            /\ unit[i].route \in {"github", "mapping", "thirdparty"}
            /\ unit[i].result.IsUnmaintained
            /\ unit[i].result.Reason = ReasonNotFound

\* A GitLab project that does not exist has a verdict with reason not found.
NotExistsIsNotFoundWitness ==
    \E i \in Indices :
        /\ HasMetadata(i)
        /\ ~unit[i].result.RepoInfo[1].Exists
        /\ unit[i].route = "thirdparty"
        /\ unit[i].result.Reason = ReasonNotFound

\* ------------------------------------------------- the cache in a classification

\* The unit of index i has ended.
Ended(i) == unit[i].pc \in {"sent", "exited"}

\* The service has given one of the answers, or it has not been asked: a
\* service answers a request the same way whenever it is asked, so a run
\* that has not asked is a run with a service that gives one of the answers.
Reports(req, i, answers) ==
    world[<<req, targetOf(deps[i])>>] \in answers \cup {Unasked}

\* C12: with CheckOutdated, a dependency declared at v1.0.0 whose provider
\* reports the latest version v2.0.0, for a repository that exists, is not
\* archived and was recently active, is classified unmaintained with reason
\* outdated version, on every run that is not cancelled and whatever the
\* cache directory holds from earlier runs; here for the verdicts made from
\* metadata that say so too: existing, not archived, active.
OutdatedWhateverCached ==
    \A i \in Indices :
        (/\ Ended(i)
         /\ unit[i].route = "github"
         /\ ~access[i].failed
         /\ ~ctxDone
         /\ config.CheckOutdated
         /\ deps[i].Version = "v1.0.0"
         /\ Reports("repo", i, {RespRepo(FALSE, RecentTime)})
         /\ Reports("tags", i, {RespVersion("v2.0.0")})
         /\ unit[i].result.RepoInfo[1].Exists
         /\ ~unit[i].result.RepoInfo[1].IsArchived
         /\ ~IsStale(unit[i].result.RepoInfo[1])) =>
            /\ unit[i].result.IsUnmaintained
            /\ unit[i].result.Reason = ReasonOutdated

\* Two dependencies of the list are modules of one GitHub repository.
SamePair(i, j) ==
    LET a == ParseModulePath(deps[i].Path)
        b == ParseModulePath(deps[j].Path)
    IN  /\ i # j
        /\ a.IsGitHub /\ b.IsGitHub
        /\ a.Owner = b.Owner /\ a.Repo = b.Repo

\* C15: with the cache enabled, within one run the provider is asked for an
\* (owner, repo) pair at most once, also when several dependencies of the
\* list map to the pair: of two such dependencies whose classifications
\* have ended without a failure, in a run that is not cancelled and whose
\* cache writes succeed, at most one has made a request.
FetchedOncePerPair ==
    ~config.NoCache =>
        \A i, j \in Indices :
            (/\ SamePair(i, j)
             /\ Ended(i) /\ Ended(j)
             /\ unit[i].route = "github" /\ unit[j].route = "github"
             /\ ~access[i].failed /\ ~access[j].failed
             /\ ~access[i].writeFailed /\ ~access[j].writeFailed
             /\ ~ctxDone) =>
                ~(access[i].net /\ access[j].net)

\* What sequential mode returns for this run's dependency list, configuration,
\* cache directory and service answers when every cache write succeeds.
ReferenceWithWrites ==
    sequentialRun(deps, Len(deps), config, goModWhy, cacheAtStart, DirOk, world, now)

NoPath(r) == [r EXCEPT !.DependencyPath = <<>>]

\* C19: a failing cache write never aborts a classification: the call whose
\* SetRepoInfo failed after a successful fetch ends without an error, and
\* when AnalyzeModule has returned, uncancelled, the result list is complete
\* and the dependency has the verdict of the call, which is the verdict it
\* has in the run where every cache write succeeds.
WriteFailureKeepsVerdict ==
    \A i \in Indices :
        (Ended(i) /\ access[i].writeFailed) =>
            /\ ~access[i].failed
            /\ unit[i].result.RepoInfo # <<>>
            /\ (pc = "done" /\ ~ctxDone) =>
                  /\ Len(results) = Len(deps)
                  /\ SameVerdict(results[i], unit[i].result)
                  /\ ReferenceWithWrites.determined
                  /\ NoPath(results[i]) = NoPath(ReferenceWithWrites.results[i])

\* AnalyzeModule has returned for two modules of one repository; the cache
\* write failed for both, and both are flagged unmaintained.
WriteFailureKeepsVerdictWitness ==
    /\ pc = "done"
    /\ ~ctxDone
    /\ Len(deps) = 2
    /\ access[1].writeFailed /\ access[2].writeFailed
    /\ results[1].IsUnmaintained /\ results[2].IsUnmaintained

\* C20: when a cache write fails during a classification, the failure is
\* surfaced as a warning: in verbose mode it is logged or attached to the
\* detail of the verdict that is returned.  The analyzer writes to no log and
\* no stream, so that what a caller can get of the failure is the error of
\* the call or a detail that is not the one the heuristics give.
WriteFailureIsSurfaced ==
    \A i \in Indices :
        (Ended(i) /\ access[i].writeFailed /\ config.Verbose) =>
            \/ access[i].failed
            \/ unit[i].result.Details #
                  githubResult(deps[i], unit[i].result.RepoInfo[1],
                               unit[i].result.LatestVersion, config, now).Details

\* ------------------------------------------- trusted modules and the resolver

\* No request has been made about the dependency of index i.
NothingAsked(i) ==
    /\ ~access[i].net
    /\ \A req \in ReqKinds : world[<<req, targetOf(deps[i])>>] = Unasked

\* The resolver has been called for the dependency of index i: the call is
\* on the resolver's route and the module proxy has been asked.
ResolverInvoked(i) ==
    /\ unit[i].route = "resolver"
    /\ access[i].net
    /\ world[<<"proxy", targetOf(deps[i])>>] # Unasked

\* C21, as the spec has it: every dependency with a valid path that none of
\* the earlier rules matches (no replace directive, no entry in the
\* popular-package cache, not on GitHub, no GitHub mapping, not trusted, not
\* on GitLab or Bitbucket) is classified by a call of the resolver, whatever
\* the configuration.
ResolverInvokedForTheRest ==
    \A i \in Indices :
        (Ended(i) /\ ~ctxDone /\ FirstRule(deps[i], TRUE) = "fallback") =>
            ResolverInvoked(i)

\* C21, as the code has it: such a dependency is classified by a call of
\* the resolver when ResolveUnknown is set or its path has a known host (a
\* well-known prefix); otherwise the resolver is not called, no request is
\* made for it, and it is not flagged.
ResolverInvokedWhenEnabled ==
    \A i \in Indices :
        (Ended(i) /\ ~ctxDone /\ FirstRule(deps[i], TRUE) = "fallback") =>
            IF config.ResolveUnknown \/ isWellKnownGoModule(deps[i].Path)
            THEN ResolverInvoked(i)
            ELSE /\ unit[i].route = "unresolved"
                 /\ NothingAsked(i)
                 /\ ~unit[i].result.IsUnmaintained
                 /\ ~access[i].failed

\* AnalyzeModule has returned for gopkg.in/yaml.v3 without ResolveUnknown:
\* the resolver has been called for it.
ResolverInvokedWhenEnabledWitness ==
    /\ pc = "done"
    /\ ~ctxDone
    /\ ~config.ResolveUnknown
    /\ \E i \in Indices :
          /\ deps[i].Path = PathGopkg
          /\ ResolverInvoked(i)

\* C23: a dependency that reaches the rule of the trusted modules (no earlier
\* rule matches it) is classified with reason active_maintained and is not
\* flagged, its call does not fail, and no request is made for it: not to a
\* provider, not to the module proxy, not to the module's host.
TrustedIsActiveOffline ==
    \A i \in Indices :
        (Routed(i) /\ FirstRule(deps[i], TRUE) = "trusted") =>
            /\ unit[i].route = "trusted"
            /\ unit[i].pc # "net"
            /\ unit[i].result.Reason = ReasonActive
            /\ ~unit[i].result.IsUnmaintained
            /\ ~access[i].failed
            /\ ~access[i].cache
            /\ NothingAsked(i)

\* AnalyzeModule has returned a list with a trusted module, k8s.io/api.
TrustedIsActiveOfflineWitness ==
    /\ pc = "done"
    /\ \E i \in Indices :
          /\ deps[i].Path = PathK8s
          /\ unit[i].route = "trusted"
          /\ results[i].Reason = ReasonActive
          /\ NothingAsked(i)

\* What ResolveModule has returned for the dependency of index i, from the
\* answers its probes have had: the first result in the order of the module
\* proxy, the module's host by HTTPS, by HTTP, the well-known patterns.
ResolvedOf(i) ==
    LET answer(req) == world[<<req, targetOf(deps[i])>>]
        proxy == tryGoModuleProxy(answer("proxy"))
        https == tryVanityScheme(answer("https"), "https")
        http == tryVanityScheme(answer("http"), "http")
    IN  IF proxy # <<>> THEN proxy[1]
        ELSE IF https # <<>> THEN https[1]
        ELSE IF http # <<>> THEN http[1]
        ELSE tryWellKnownPatterns(deps[i].Path, ParseModulePath(deps[i].Path))

\* C22: the verdict made from the resolver's result: status active gives
\* reason active_maintained, not flagged; status not_found gives reason
\* package_not_found, flagged; status unavailable gives a flagged verdict with
\* a detail; every other status (redirect, unknown) gives reason
\* unknown_source, not flagged.
VerdictOfResolved ==
    \A i \in Indices :
        (Ended(i) /\ ~ctxDone /\ unit[i].route = "resolver") =>
            LET status == ResolvedOf(i).Status
                r == unit[i].result
            IN  /\ status = StatusActive =>
                      (r.Reason = ReasonActive /\ ~r.IsUnmaintained)
                /\ status = StatusNotFound =>
                      (r.Reason = ReasonNotFound /\ r.IsUnmaintained)
                /\ status = StatusUnavailable =>
                      (r.IsUnmaintained /\ r.Details # "")
                /\ status \notin {StatusActive, StatusNotFound, StatusUnavailable} =>
                      (r.Reason = ReasonUnknown /\ ~r.IsUnmaintained)

\* -------------------------------------------------------------- retractions

\* A range check whose upper bound is exclusive.
versionInRangeBelowHigh(version, low, high) ==
    IF ~semverIsValid(version) \/ ~semverIsValid(low) \/ ~semverIsValid(high)
    THEN FALSE
    ELSE ~semverLess(version, low) /\ semverLess(version, high)

\* semver.Compare(version, low) >= 0 && semver.Compare(version, high) <= 0
versionInRange(version, low, high) ==
    IF ~semverIsValid(version) \/ ~semverIsValid(low) \/ ~semverIsValid(high)
    THEN FALSE
    ELSE ~semverLess(version, low) /\ ~semverLess(high, version)

\* A line of a go.mod file is the sequence of its words, <<>> for a blank
\* line; "//", "(", ")", "[", "," and "]" are words of their own.
RECURSIVE joinWords(_)
joinWords(words) ==
    IF words = <<>> THEN ""
    ELSE IF Len(words) = 1 THEN words[1]
    ELSE words[1] \o " " \o joinWords(Tail(words))

\* strings.Index(line, w): the place of the first word w, 0 for none
indexOfWord(line, w) ==
    IF \E k \in 1..Len(line) : line[k] = w
    THEN CHOOSE k \in 1..Len(line) :
            line[k] = w /\ \A j \in 1..(k - 1) : line[j] # w
    ELSE 0

\* strings.HasPrefix(trimmed, "retract "): the word retract and more
hasRetractPrefix(line) == Len(line) >= 2 /\ line[1] = "retract"

\* A line that the scanner cannot hold: longer than bufio.MaxScanTokenSize.
LineTooLong == <<"#too-long">>

\* parseRetractLine: <<>> for nil
parseRetractLine(line, comment) ==
    LET rest == IF hasRetractPrefix(line) THEN Tail(line) ELSE line
        idx == indexOfWord(rest, "//")
        reason == IF idx # 0 /\ comment = ""
                  THEN joinWords(SubSeq(rest, idx + 1, Len(rest)))
                  ELSE comment
        spec == IF idx # 0 THEN SubSeq(rest, 1, idx - 1) ELSE rest
        inner == SubSeq(spec, 2, Len(spec) - 1)
        comma == indexOfWord(inner, ",")
    IN  IF spec = <<>> THEN <<>>
        ELSE IF /\ spec[1] = "[" /\ spec[Len(spec)] = "]"
                /\ comma # 0
                /\ indexOfWord(SubSeq(inner, comma + 1, Len(inner)), ",") = 0
        THEN <<[Low |-> joinWords(SubSeq(inner, 1, comma - 1)),
                High |-> joinWords(SubSeq(inner, comma + 1, Len(inner))),
                Reason |-> reason]>>
        ELSE IF semverIsValid(joinWords(spec))
        THEN <<[Low |-> joinWords(spec), High |-> joinWords(spec), Reason |-> reason]>>
        ELSE <<>>

\* A scanning loop that does not leave the block at the closing parenthesis.
scanLineWithinBlock(st, line) ==
    IF line # <<>> /\ line[1] = "//"
    THEN [st EXCEPT !.currentComment =
             (IF @ # "" THEN @ \o " " ELSE "") \o joinWords(Tail(line))]
    ELSE IF hasRetractPrefix(line) /\ line[2] = "("
    THEN [st EXCEPT !.inRetractBlock = TRUE, !.currentComment = ""]
    ELSE LET parsed == IF hasRetractPrefix(line) \/ st.inRetractBlock
                       THEN parseRetractLine(line, st.currentComment)
                       ELSE <<>>
         IN  [st EXCEPT !.retractions = @ \o parsed, !.currentComment = ""]

\* The body of parseRetractions' loop for one line
scanLine(st, line) ==
    IF line # <<>> /\ line[1] = "//"
    THEN [st EXCEPT !.currentComment =
             (IF @ # "" THEN @ \o " " ELSE "") \o joinWords(Tail(line))]
    ELSE IF hasRetractPrefix(line) /\ line[2] = "("
    THEN [st EXCEPT !.inRetractBlock = TRUE, !.currentComment = ""]
    ELSE IF st.inRetractBlock /\ line = <<")">>
    THEN [st EXCEPT !.inRetractBlock = FALSE, !.currentComment = ""]
    ELSE LET parsed == IF hasRetractPrefix(line) \/ st.inRetractBlock
                       THEN parseRetractLine(line, st.currentComment)
                       ELSE <<>>
             used == hasRetractPrefix(line) \/ st.inRetractBlock
             other == ~(line # <<>> /\ line[1] = "retract") /\ ~st.inRetractBlock
         IN  [st EXCEPT !.retractions = @ \o parsed,
                        !.currentComment = IF used \/ other THEN "" ELSE @]

RECURSIVE scanLines(_, _)
scanLines(st, lines) ==
    IF lines = <<>> THEN st
    ELSE scanLines(scanLine(st, Head(lines)), Tail(lines))

\* parseRetractions: the ranges, or the scanner's error
parseRetractions(lines) ==
    IF \E k \in 1..Len(lines) : lines[k] = LineTooLong
    THEN [retractions |-> <<>>, err |-> "bufio.Scanner: token too long"]
    ELSE [retractions |->
              scanLines([retractions |-> <<>>, currentComment |-> "",
                         inRetractBlock |-> FALSE], lines).retractions,
          err |-> ""]

\* The first range of the list that holds the version: <<>> for none
RECURSIVE firstRangeWith(_, _)
firstRangeWith(version, retractions) ==
    IF retractions = <<>> THEN <<>>
    ELSE IF versionInRange(version, Head(retractions).Low, Head(retractions).High)
    THEN <<Head(retractions)>>
    ELSE firstRangeWith(version, Tail(retractions))

\* The answers of the module proxy to CheckRetraction's two requests: kind
\* "error" for a failed round trip, else the status, the Version of the
\* @latest body ("" when the body has none) and the lines of the .mod body.
ProxyFile(kind, status, version, lines) ==
    [kind |-> kind, status |-> status, version |-> version, lines |-> lines]

\* CheckRetraction, from the answers to @latest and to @v/<latest>.mod
CheckRetraction(latest, mod, version) ==
    LET info == [IsRetracted |-> FALSE, Reason |-> "", Ranges |-> <<>>]
        done(i, e) == [info |-> i, err |-> e]
    IN  IF latest.kind = "error" THEN done(info, "failed to fetch @latest")
        ELSE IF latest.status # 200 THEN done(info, "")
        ELSE IF latest.version = "" THEN done(info, "")
        ELSE IF mod.kind = "error" THEN done(info, "failed to fetch go.mod")
        ELSE IF mod.status # 200 THEN done(info, "")
        ELSE LET parsed == parseRetractions(mod.lines)
                 found == firstRangeWith(version, parsed.retractions)
             IN  IF parsed.err # ""
                 THEN done(info, "failed to parse retractions: " \o parsed.err)
                 ELSE IF found = <<>>
                 THEN done([info EXCEPT !.Ranges = parsed.retractions], "")
                 ELSE done([IsRetracted |-> TRUE, Reason |-> found[1].Reason,
                            Ranges |-> parsed.retractions], "")

\* ------------------------------------------------- the popular-cache builder

RateLimited == "rate limit"

\* github.Client.GetRepositoryInfo, from the answers to Repositories.Get and
\* to Repositories.ListCommits: <<>> for a nil *RepoInfo
GetRepositoryInfo(resp, commits) ==
    IF resp.kind = "error"
    THEN [info |-> <<>>,
          err |-> CASE resp.err = RateLimited -> "GitHub API rate limit exceeded"
                    [] resp.err = "forbidden" -> "GitHub API access forbidden"
                    [] OTHER -> "failed to fetch repository: " \o resp.err]
    ELSE IF resp.kind = "notfound"
    THEN [info |-> <<RepoInfoNotExists>>, err |-> ""]
    ELSE [info |-> <<withLastCommit(repoInfoOf(resp), commits)>>, err |-> ""]

\* cache-builder's analyzeRepository: the status of the popular.Entry
analyzeRepository(resp, commits, maxAge, t) ==
    LET got == GetRepositoryInfo(resp, commits)
    IN  IF got.err # "" THEN StatusNotFoundPopular
        ELSE IF ~got.info[1].Exists THEN StatusNotFoundPopular
        ELSE IF got.info[1].IsArchived THEN StatusArchived
        ELSE IF ~IsRepositoryActive(got.info[1], maxAge, t) THEN StatusInactive
        ELSE StatusActivePopular

\* -------------------------------------------------------------- the summary

\* The zero value of SummaryStats with TotalDependencies: len(results).
ZeroStats(n) ==
    [TotalDependencies |-> n, UnmaintainedCount |-> 0, ArchivedCount |-> 0,
     NotFoundCount |-> 0, StaleInactiveCount |-> 0, OutdatedCount |-> 0,
     UnknownCount |-> 0, DirectUnmaintained |-> 0, IndirectUnmaintained |-> 0,
     RetractedCount |-> 0]

\* A loop body whose switch on the reason stands outside the test of
\* IsUnmaintained.
summaryStepAnyVerdict(stats, result) ==
    LET flagged ==
            IF result.IsUnmaintained
            THEN [stats EXCEPT
                    !.UnmaintainedCount = @ + 1,
                    !.DirectUnmaintained = IF result.IsDirect THEN @ + 1 ELSE @,
                    !.IndirectUnmaintained = IF result.IsDirect THEN @ ELSE @ + 1]
            ELSE IF result.Reason = ReasonUnknown
            THEN [stats EXCEPT !.UnknownCount = @ + 1]
            ELSE stats
        counted ==
            [flagged EXCEPT
               !.ArchivedCount = IF result.Reason = ReasonArchived THEN @ + 1 ELSE @,
               !.NotFoundCount = IF result.Reason = ReasonNotFound THEN @ + 1 ELSE @,
               !.StaleInactiveCount =
                   IF result.Reason = ReasonStaleInactive THEN @ + 1 ELSE @,
               !.OutdatedCount = IF result.Reason = ReasonOutdated THEN @ + 1 ELSE @]
    IN  [counted EXCEPT !.RetractedCount = IF result.IsRetracted THEN @ + 1 ELSE @]

\* The body of GetSummary's loop over the results.
summaryStep(stats, result) ==
    LET counted ==
            IF result.IsUnmaintained
            THEN [stats EXCEPT
                    !.UnmaintainedCount = @ + 1,
                    !.DirectUnmaintained = IF result.IsDirect THEN @ + 1 ELSE @,
                    !.IndirectUnmaintained = IF result.IsDirect THEN @ ELSE @ + 1,
                    !.ArchivedCount = IF result.Reason = ReasonArchived THEN @ + 1 ELSE @,
                    !.NotFoundCount = IF result.Reason = ReasonNotFound THEN @ + 1 ELSE @,
                    !.StaleInactiveCount =
                        IF result.Reason = ReasonStaleInactive THEN @ + 1 ELSE @,
                    !.OutdatedCount = IF result.Reason = ReasonOutdated THEN @ + 1 ELSE @]
            ELSE IF result.Reason = ReasonUnknown
            THEN [stats EXCEPT !.UnknownCount = @ + 1]
            ELSE stats
    IN  [counted EXCEPT !.RetractedCount = IF result.IsRetracted THEN @ + 1 ELSE @]

\* The loop over results[1..n].
RECURSIVE summaryLoop(_, _)
summaryLoop(rs, n) ==
    IF n = 0 THEN ZeroStats(Len(rs))
    ELSE summaryStep(summaryLoop(rs, n - 1), rs[n])

GetSummary(rs) == summaryLoop(rs, Len(rs))

\* ------------------------------------------------------------ the exit code

\* formatter.DefaultShouldExit
DefaultShouldExit(rs, noExitCode) ==
    IF noExitCode THEN 0
    ELSE IF \E k \in 1..Len(rs) : rs[k].IsUnmaintained THEN 1
    ELSE 0

Formats == {"console", "json", "github-actions", "golangci-lint"}

\* fmtr.ShouldExit(results) of the formatter formatter.New gives for format
ShouldExit(format, rs, noExitCode) ==
    IF format = "golangci-lint" THEN 0 ELSE DefaultShouldExit(rs, noExitCode)

\* main's func add(i *int) int { return 1 + *i }: i is <<>> for nil, and the
\* dereference of nil panics.
add(i) ==
    IF i = <<>> THEN [panic |-> TRUE, ret |-> 0]
    ELSE [panic |-> FALSE, ret |-> 1 + i[1]]

\* The exit status of the process.  main calls add on a nil pointer before
\* cmd.Execute; a goroutine that panics ends the process with status 2.  After
\* it, an error of cmd.Execute (toolError: arguments, token, go.mod) gives 2
\* and analyzeProject exits with the formatter's ShouldExit.
main(toolError, format, rs, noExitCode) ==
    IF add(<<>>).panic THEN 2
    ELSE IF toolError THEN 2
    ELSE ShouldExit(format, rs, noExitCode)

\* ------------------------------------------- the functions, called on their own

\* The configuration of an analyzer that is not running.
ZeroConfig ==
    [AsyncMode |-> FALSE, Concurrency |-> 0, NoCache |-> FALSE,
     CheckOutdated |-> FALSE, ResolveUnknown |-> FALSE, ShowDepPath |-> FALSE,
     Verbose |-> FALSE, Token |-> ""]

analysisVars ==
    <<deps, config, goModWhy, ctxDone, world, pc, cur, batches, unit,
      semaphore, resultsChan, collected, results, writes, access>>

\* No module is being analysed.
NoAnalysis ==
    /\ deps = <<>>
    /\ goModWhy = FALSE
    /\ ctxDone = FALSE
    /\ world = [k \in ReqKinds \X Targets |-> Unasked]
    /\ pc = "start"
    /\ cur = 0
    /\ batches = [k \in Tiers |-> <<>>]
    /\ unit = <<>>
    /\ semaphore = [k \in Tiers |-> 0]
    /\ resultsChan = [k \in Tiers |-> <<>>]
    /\ collected = 0
    /\ results = <<>>
    /\ writes = <<>>
    /\ access = <<>>

\* The metadata IsRepositoryActive is called with: every combination of the
\* flags and of timestamps from StartTime back to the clock's origin.
ActivityTimes == 0..StartTime

ActivityInfos ==
    [Exists : BOOLEAN, IsArchived : BOOLEAN, UpdatedAt : ActivityTimes,
     LastCommitAt : {<<>>} \cup {<<t>> : t \in ActivityTimes}]

\* The version strings isVersionOutdated is called with.
VersionStrings ==
    {"", "v1.0.0", "1.0.0", "v1.0.1", "v1.1.0", "1.1.0", "v2.0.0", "2.0.0",
     "v1.0.0-alpha", "1.0.0-alpha", "vnext", "notaversion"}

\* The version strings versionInRange is called with.
RangeStrings == {"v1.0.9", "v1.1.0", "v1.1.5", "v1.2.0", "v1.2.1", "1.1.5", "invalid"}

\* The lines of the go.mod files parseRetractions is called with.
MaxLines == 3

ModuleLine == <<"module", "m">>

\* The lines between "retract (" and ")": comments, a blank line, a version
\* without and with an inline comment, a range, and a word that is no version.
BlockLines ==
    {<<"//", "a">>, <<"//", "b">>, <<>>, <<"v1.0.0">>, <<"v1.0.0", "//", "c">>,
     <<"[", "v1.1.0", ",", "v1.2.0", "]">>, <<"vnext">>}

BlockBodies == UNION {[1..n -> BlockLines] : n \in 0..MaxLines}

\* What follows the block: nothing, a line with a version alone, a commented
\* single-line directive.
BlockTails ==
    {<<>>, <<<<"v2.0.0">>>>, <<<<"//", "b">>, <<"retract", "v2.0.0">>>>}

\* The file with the directives in a block
BlockForm(body, tail) ==
    <<ModuleLine, <<"retract", "(">>>> \o body \o <<<<")">>>> \o tail

\* The file with the same directives, each on a retract line of its own,
\* and a blank line in the place of each parenthesis
SingleForm(body, tail) ==
    <<ModuleLine, <<>>>>
      \o [k \in 1..Len(body) |->
             IF body[k] = <<>> \/ body[k][1] = "//" THEN body[k]
             ELSE <<"retract">> \o body[k]]
      \o <<<<>>>> \o tail

\* The answers CheckRetraction is called with.
LatestAnswers ==
    {ProxyFile("error", 0, "", <<>>), ProxyFile("status", 404, "", <<>>),
     ProxyFile("status", 200, "", <<>>), ProxyFile("status", 200, "v1.2.1", <<>>)}

RetractManifests ==
    {<<>>,
     <<ModuleLine, <<"retract", "[", "v1.1.0", ",", "v1.2.0", "]", "//", "c">>>>,
     <<ModuleLine, LineTooLong>>,
     <<<<"%%">>>>}

ModAnswers ==
    {ProxyFile("error", 0, "", <<>>), ProxyFile("status", 404, "", <<>>)}
      \cup {ProxyFile("status", 200, "", lines) : lines \in RetractManifests}

\* The answers of the GitHub API analyzeRepository is called with.
RepositoryAnswers ==
    {RespNotFound, RespError(RateLimited), RespError("network error"),
     RespRepo(FALSE, RecentTime), RespRepo(FALSE, OldTime), RespRepo(TRUE, OldTime)}

\* The result lists GetSummary is called with: up to MaxVerdicts results, each
\* with any flags and any reason, the empty one included.
MaxVerdicts == 2

Reasons ==
    {ReasonArchived, ReasonNotFound, ReasonStaleInactive, ReasonOutdated,
     ReasonUnknown, ReasonActive, ""}

Verdicts ==
    {[ZeroResult EXCEPT !.IsUnmaintained = u, !.IsDirect = d, !.Reason = r,
                        !.IsRetracted = x] :
        u \in BOOLEAN, d \in BOOLEAN, r \in Reasons, x \in BOOLEAN}

VerdictLists == UNION {[1..n -> Verdicts] : n \in 0..MaxVerdicts}

\* The results a run ends with, as far as the exit code reads them.
FlagLists ==
    UNION {[1..n -> {[ZeroResult EXCEPT !.IsUnmaintained = u] : u \in BOOLEAN}] :
              n \in 0..MaxVerdicts}

\* The dependencies AnalyzeDependency is called on by itself: one of each
\* status of the popular index, declared with and without a replace
\* directive, and one that the index does not hold.
PopularDeps ==
    {Dep(p, "v1.0.0", FALSE, r) : p \in DOMAIN PopularIndex, r \in BOOLEAN}
        \cup {Dep(PathGitHub, "v1.0.0", FALSE, FALSE)}

FnCalls ==
    {[op |-> "IsRepositoryActive", info |-> i, maxAge |-> MaxAge, done |-> FALSE,
      ret |-> FALSE] : i \in ActivityInfos}
      \cup {[op |-> "isVersionOutdated", current |-> c, latest |-> l, done |-> FALSE,
              ret |-> FALSE] : c, l \in VersionStrings}
      \cup {[op |-> "versionInRange", version |-> v, low |-> l, high |-> h,
              done |-> FALSE, ret |-> FALSE] : v, l, h \in RangeStrings}
      \cup {[op |-> "parseRetractions", body |-> b, tail |-> t, done |-> FALSE,
              ret |-> [retractions |-> <<>>, err |-> ""]] :
                b \in BlockBodies, t \in BlockTails}
      \cup {[op |-> "CheckRetraction", latest |-> l, mod |-> m, version |-> v,
              done |-> FALSE,
              ret |-> [info |-> [IsRetracted |-> FALSE, Reason |-> "", Ranges |-> <<>>],
                       err |-> ""]] :
                l \in LatestAnswers, m \in ModAnswers, v \in {"v1.1.5", "v1.2.1"}}
      \cup {[op |-> "analyzeRepository", resp |-> r, commits |-> c, done |-> FALSE,
              ret |-> ""] :
                r \in RepositoryAnswers,
                c \in {RespError("network error"), RespTime(RecentTime)}}
      \cup {[op |-> "GetSummary", results |-> rs, done |-> FALSE,
              ret |-> ZeroStats(0)] : rs \in VerdictLists}
      \cup {[op |-> o, toolError |-> e, format |-> f, results |-> rs,
              noExitCode |-> n, done |-> FALSE, ret |-> 0] :
                o \in {"main"}, e \in BOOLEAN, f \in Formats, rs \in FlagLists,
                n \in BOOLEAN}
      \cup {[op |-> o, toolError |-> e, format |-> f, results |-> rs,
              noExitCode |-> n, done |-> FALSE, ret |-> 0] :
                o \in {"ShouldExit"}, e \in {FALSE}, f \in Formats, rs \in FlagLists,
                n \in BOOLEAN}
      \cup {[op |-> "AnalyzeDependency", dep |-> d, cfg |-> cfg, cache |-> c,
              done |-> FALSE, ret |-> Returned("", ZeroResult, c, FALSE)] :
                d \in PopularDeps,
                cfg \in {[ZeroConfig EXCEPT !.NoCache = n, !.Token = ValidToken] :
                            n \in BOOLEAN},
                c \in InitialCaches}

FnInit ==
    /\ NoAnalysis
    /\ config = ZeroConfig
    /\ now = StartTime
    /\ cache = EmptyCache
    /\ cacheAtStart = cache
    /\ dir = DirOk
    /\ call \in FnCalls

\* info.IsRepositoryActive(maxAge)
CallIsRepositoryActive ==
    /\ call.op = "IsRepositoryActive"
    /\ ~call.done
    /\ call' = [call EXCEPT !.done = TRUE,
                            !.ret = IsRepositoryActive(call.info, call.maxAge, now)]
    /\ UNCHANGED <<analysisVars, cacheAtStart, now, cache, dir>>

\* a.isVersionOutdated(current, latest)
CallIsVersionOutdated ==
    /\ call.op = "isVersionOutdated"
    /\ ~call.done
    /\ call' = [call EXCEPT !.done = TRUE,
                            !.ret = isVersionOutdated(call.current, call.latest)]
    /\ UNCHANGED <<analysisVars, cacheAtStart, now, cache, dir>>

\* versionInRange(version, low, high)
CallVersionInRange ==
    /\ call.op = "versionInRange"
    /\ ~call.done
    /\ call' = [call EXCEPT !.done = TRUE,
                            !.ret = versionInRange(call.version, call.low, call.high)]
    /\ UNCHANGED <<analysisVars, cacheAtStart, now, cache, dir>>

\* parseRetractions(r) on the file with the directives in a block
CallParseRetractions ==
    /\ call.op = "parseRetractions"
    /\ ~call.done
    /\ call' = [call EXCEPT !.done = TRUE,
                            !.ret = parseRetractions(BlockForm(call.body, call.tail))]
    /\ UNCHANGED <<analysisVars, cacheAtStart, now, cache, dir>>

\* r.CheckRetraction(ctx, modulePath, version)
CallCheckRetraction ==
    /\ call.op = "CheckRetraction"
    /\ ~call.done
    /\ call' = [call EXCEPT !.done = TRUE,
                            !.ret = CheckRetraction(call.latest, call.mod, call.version)]
    /\ UNCHANGED <<analysisVars, cacheAtStart, now, cache, dir>>

\* analyzeRepository(ctx, ghClient, owner, repoName, maxAge, cacheBuiltAt)
CallAnalyzeRepository ==
    /\ call.op = "analyzeRepository"
    /\ ~call.done
    /\ call' = [call EXCEPT !.done = TRUE,
                            !.ret = analyzeRepository(call.resp, call.commits, MaxAge, now)]
    /\ UNCHANGED <<analysisVars, cacheAtStart, now, cache, dir>>

\* analyzer.GetSummary(results)
CallGetSummary ==
    /\ call.op = "GetSummary"
    /\ ~call.done
    /\ call' = [call EXCEPT !.done = TRUE, !.ret = GetSummary(call.results)]
    /\ UNCHANGED <<analysisVars, cacheAtStart, now, cache, dir>>

\* A run of the program, from main to the exit of the process
CallMain ==
    /\ call.op = "main"
    /\ ~call.done
    /\ call' = [call EXCEPT !.done = TRUE,
                            !.ret = main(call.toolError, call.format, call.results,
                                         call.noExitCode)]
    /\ UNCHANGED <<analysisVars, cacheAtStart, now, cache, dir>>

\* fmtr.ShouldExit(results) at the end of analyzeProject
CallShouldExit ==
    /\ call.op = "ShouldExit"
    /\ ~call.done
    /\ call' = [call EXCEPT !.done = TRUE,
                            !.ret = ShouldExit(call.format, call.results,
                                               call.noExitCode)]
    /\ UNCHANGED <<analysisVars, cacheAtStart, now, cache, dir>>

\* a.AnalyzeDependency(ctx, dep), up to its return or its first request
CallAnalyzeDependency ==
    /\ call.op = "AnalyzeDependency"
    /\ ~call.done
    /\ call' = [call EXCEPT !.done = TRUE,
                            !.ret = AnalyzeDependency(call.dep, call.cfg,
                                                      call.cache, now)]
    /\ UNCHANGED <<analysisVars, cacheAtStart, now, cache, dir>>

FnNext ==
    \/ CallIsRepositoryActive
    \/ CallIsVersionOutdated
    \/ CallVersionInRange
    \/ CallParseRetractions
    \/ CallCheckRetraction
    \/ CallAnalyzeRepository
    \/ CallGetSummary
    \/ CallMain
    \/ CallShouldExit
    \/ CallAnalyzeDependency

FnSpec == FnInit /\ [][FnNext]_vars

\* ------------------------------------------------------------------ activity

\* The effective last activity, in the words of the claim.
EffectiveLastActivity(info) ==
    IF info.LastCommitAt # <<>> /\ info.LastCommitAt[1] > info.UpdatedAt
    THEN (IF info.UpdatedAt > info.LastCommitAt[1] THEN info.UpdatedAt
          ELSE info.LastCommitAt[1])
    ELSE info.UpdatedAt

\* C11: IsRepositoryActive decides on the effective last activity, which is
\* max(UpdatedAt, LastCommitAt) when LastCommitAt is present and later and
\* UpdatedAt otherwise: an existing repository is active iff now minus the
\* effective last activity does not exceed maxAge; so a repository with a
\* recent UpdatedAt and an old LastCommitAt is active, and a repository that
\* does not exist is never active.
ActiveByEffectiveLastActivity ==
    (call.op = "IsRepositoryActive" /\ call.done) =>
        LET info == call.info
        IN  /\ info.Exists =>
                  (call.ret <=> now - EffectiveLastActivity(info) <= call.maxAge)
            /\ (/\ info.Exists
                /\ now - info.UpdatedAt <= call.maxAge
                /\ info.LastCommitAt # <<>>
                /\ now - info.LastCommitAt[1] > call.maxAge) => call.ret
            /\ ~info.Exists => ~call.ret

\* IsRepositoryActive has answered true for a repository whose UpdatedAt is
\* within maxAge and whose LastCommitAt is longer ago than maxAge.
ActiveByEffectiveLastActivityWitness ==
    /\ call.op = "IsRepositoryActive"
    /\ call.done
    /\ call.info.Exists
    /\ now - call.info.UpdatedAt <= call.maxAge
    /\ call.info.LastCommitAt # <<>>
    /\ now - call.info.LastCommitAt[1] > call.maxAge
    /\ call.ret

\* ------------------------------------------------------------ version order

\* The semantic version a string stands for once a leading 'v' is added when
\* it is missing: <<major, minor, patch, release>>, <<>> when it is none.
SemanticVersion(v) ==
    CASE v \in {"v1.0.0", "1.0.0"} -> <<1, 0, 0, 1>>
      [] v = "v1.0.1" -> <<1, 0, 1, 1>>
      [] v \in {"v1.1.0", "1.1.0"} -> <<1, 1, 0, 1>>
      [] v \in {"v2.0.0", "2.0.0"} -> <<2, 0, 0, 1>>
      [] v \in {"v1.0.0-alpha", "1.0.0-alpha"} -> <<1, 0, 0, 0>>
      [] OTHER -> <<>>

\* a is strictly less than b in semantic-version order: by major, then minor,
\* then patch, and a pre-release is less than its release.
StrictlyOlder(a, b) ==
    \/ a[1] < b[1]
    \/ a[1] = b[1] /\ a[2] < b[2]
    \/ a[1] = b[1] /\ a[2] = b[2] /\ a[3] < b[3]
    \/ a[1] = b[1] /\ a[2] = b[2] /\ a[3] = b[3] /\ a[4] < b[4]

\* C13: isVersionOutdated returns true iff both operands, after a leading 'v'
\* is added when missing, are valid semantic versions and the declared version
\* is strictly less than the latest one in semantic-version order (by major,
\* minor, patch or pre-release); it returns false for equal versions, for an
\* empty operand and for an operand that does not parse.
OutdatedIffStrictlyOlder ==
    (call.op = "isVersionOutdated" /\ call.done) =>
        LET c == SemanticVersion(call.current)
            l == SemanticVersion(call.latest)
        IN  /\ call.ret <=> (c # <<>> /\ l # <<>> /\ StrictlyOlder(c, l))
            /\ call.current = call.latest => ~call.ret
            /\ (call.current = "" \/ call.latest = "") => ~call.ret
            /\ (c = <<>> \/ l = <<>>) => ~call.ret

\* isVersionOutdated has answered true for a declared version without the
\* leading 'v' that is one minor version behind the latest one.
OutdatedIffStrictlyOlderWitness ==
    /\ call.op = "isVersionOutdated"
    /\ call.done
    /\ call.current = "1.0.0"
    /\ call.latest = "v1.1.0"
    /\ call.ret

\* ------------------------------------------------ the cache, called on its own

\* How far the clock goes beyond StartTime.
MaxTicks == 2

\* The (owner, repo) pairs the cache is called with.
CachePairs == {<<"a", "b">>, <<"a_b", "c">>, <<"a", "b_c">>}

\* The files these pairs are kept in: the hash of the key names the file.
CacheFiles == {cacheKey(p[1], p[2]) : p \in CachePairs}

\* The metadata and versions SetRepoInfo is called with.
ArchivedInfo ==
    [Exists |-> TRUE, IsArchived |-> TRUE, UpdatedAt |-> RecentTime,
     LastCommitAt |-> <<>>]

CachePayloads ==
    {<<RepoInfoNotExists, "">>, <<RepoInfoNotExists, "v2.0.0">>,
     <<ArchivedInfo, "v2.0.0">>}

\* The entry an earlier run has left for the pair (a, b).
EarlierEntry ==
    [RepoInfo |-> RepoInfoNotExists, Timestamp |-> StartTime, Version |-> "v2.0.0"]

NoFiles == [k \in CacheFiles |-> <<>>]

\* No SetRepoInfo call.
NoSet ==
    [op |-> "none", owner |-> "", repo |-> "", info |-> <<>>, version |-> "",
     err |-> "", at |-> 0]

\* The SetRepoInfo call recorded in c: what it was called with, its error and
\* its time; NoSet when c records another call.
Summary(c) ==
    IF c.op = "set"
    THEN [op |-> c.op, owner |-> c.owner, repo |-> c.repo, info |-> c.info,
          version |-> c.version, err |-> c.err, at |-> c.at]
    ELSE NoSet

\* A call on the cache: its arguments owner, repo, info and version (info and
\* version are the return values of a get), the returned hit, error and count,
\* the pairs whose GetRepoInfo answer the call has changed, its time, whether
\* Clear has been called so far, and the SetRepoInfo call it directly follows,
\* if it follows one.
BlankCall ==
    [op |-> "none", owner |-> "", repo |-> "", info |-> <<>>, version |-> "",
     hit |-> FALSE, err |-> "", count |-> 0, changed |-> {}, at |-> 0,
     cleared |-> FALSE, after |-> NoSet]

\* The next call record, after the call recorded in c, at time t.
NextCall(c, op, t) ==
    [BlankCall EXCEPT !.op = op, !.at = t, !.cleared = c.cleared,
                      !.after = Summary(c)]

\* The pairs for which GetRepoInfo answers differently on the directories c1
\* and c2.
Changed(disabled, c1, c2, t) ==
    {p \in CachePairs :
        GetRepoInfo(disabled, c1, cacheKey(p[1], p[2]), t)
          # GetRepoInfo(disabled, c2, cacheKey(p[1], p[2]), t)}

\* NewCache(config.NoCache, config.CacheDuration) has returned a cache.  An
\* enabled cache has its directory, with room or without; the directory may
\* hold an entry of an earlier run.
CacheInit ==
    /\ NoAnalysis
    /\ config \in {[ZeroConfig EXCEPT !.NoCache = b] : b \in BOOLEAN}
    /\ now = StartTime
    /\ dir \in {DirOk, DirFull}
    /\ config.NoCache => dir = DirOk
    /\ cache \in {NoFiles, [NoFiles EXCEPT ![cacheKey("a", "b")] = <<EarlierEntry>>]}
    /\ dir = DirFull => cache = NoFiles
    /\ cacheAtStart = cache
    /\ call = BlankCall

\* c.GetRepoInfo(owner, repo)
CallGetRepoInfo ==
    \E p \in CachePairs :
        LET key == cacheKey(p[1], p[2])
            got == GetRepoInfo(config.NoCache, cache, key, now)
            c2 == cacheAfterGet(config.NoCache, cache, key, now)
        IN  /\ cache' = c2
            /\ call' = [NextCall(call, "get", now) EXCEPT
                            !.owner = p[1], !.repo = p[2], !.info = got.info,
                            !.version = got.version, !.hit = got.hit,
                            !.changed = Changed(config.NoCache, cache, c2, now)]
            /\ UNCHANGED <<analysisVars, cacheAtStart, now, dir>>

\* c.SetRepoInfo(owner, repo, repoInfo, latestVersion)
CallSetRepoInfo ==
    \E p \in CachePairs, payload \in CachePayloads :
        LET key == cacheKey(p[1], p[2])
            m == payload[1]
            v == payload[2]
            c2 == SetRepoInfo(config.NoCache, cache, dir, key, m, v, now)
        IN  /\ cache' = c2
            /\ call' = [NextCall(call, "set", now) EXCEPT
                            !.owner = p[1], !.repo = p[2], !.info = <<m>>,
                            !.version = v,
                            !.err = SetRepoInfoErr(config.NoCache, dir),
                            !.changed = Changed(config.NoCache, cache, c2, now)]
            /\ UNCHANGED <<analysisVars, cacheAtStart, now, dir>>

\* c.Clear()
CallClear ==
    LET cleared == Clear(config.NoCache, cache, dir)
    IN  /\ cache' = cleared.cache
        /\ dir' = cleared.dir
        /\ call' = [NextCall(call, "clear", now) EXCEPT
                        !.err = cleared.err, !.cleared = TRUE,
                        !.changed = Changed(config.NoCache, cache, cleared.cache, now)]
        /\ UNCHANGED <<analysisVars, cacheAtStart, now>>

\* c.CleanExpired()
CallCleanExpired ==
    LET cleaned == CleanExpired(config.NoCache, cache, dir, now)
    IN  /\ cache' = cleaned.cache
        /\ call' = [NextCall(call, "clean", now) EXCEPT
                        !.err = cleaned.err,
                        !.changed = Changed(config.NoCache, cache, cleaned.cache, now)]
        /\ UNCHANGED <<analysisVars, cacheAtStart, now, dir>>

\* c.GetStats()
CallGetStats ==
    /\ call' = [NextCall(call, "stats", now) EXCEPT
                    !.count = GetStats(config.NoCache, cache, dir)]
    /\ UNCHANGED <<analysisVars, cacheAtStart, now, cache, dir>>

\* Time passes.
Tick ==
    /\ now < StartTime + MaxTicks
    /\ now' = now + 1
    /\ UNCHANGED <<analysisVars, cacheAtStart, cache, dir, call>>

CacheNext ==
    \/ CallGetRepoInfo
    \/ CallSetRepoInfo
    \/ CallClear
    \/ CallCleanExpired
    \/ CallGetStats
    \/ Tick

CacheSpec == CacheInit /\ [][CacheNext]_vars

\* The last call is a GetRepoInfo that directly follows a SetRepoInfo for the
\* same pair, with nothing but time between them.
GetFollowsSet ==
    /\ call.op = "get"
    /\ call.after.op = "set"
    /\ call.after.owner = call.owner
    /\ call.after.repo = call.repo

\* The GetRepoInfo has returned what the SetRepoInfo before it was given.
ReturnsWhatWasSet ==
    /\ call.hit
    /\ call.info = call.after.info
    /\ call.version = call.after.version

\* C14: on an enabled cache, a get(owner, repo) that follows a successful
\* set(owner, repo, m, v) returns a hit with exactly m and v while the age of
\* the entry does not exceed the duration; once the age exceeds it, the get
\* returns a miss and the file of the entry does not exist after the get.
RoundTripWithinDuration ==
    (GetFollowsSet /\ ~config.NoCache /\ call.after.err = "") =>
        IF call.at - call.after.at <= CacheDuration
        THEN ReturnsWhatWasSet
        ELSE /\ ~call.hit
             /\ call.info = <<>>
             /\ call.version = ""
             /\ cache[cacheKey(call.owner, call.repo)] = <<>>

\* A get has hit an entry whose age is the duration, and has returned the
\* metadata and the version of the set before it.
RoundTripWithinDurationWitness ==
    /\ GetFollowsSet
    /\ ~config.NoCache
    /\ call.after.err = ""
    /\ call.at - call.after.at = CacheDuration
    /\ call.hit
    /\ call.info = <<ArchivedInfo>>
    /\ call.version = "v2.0.0"

\* C16: the cache holds one entry per (owner, repo) pair: a set on one pair
\* never changes what get returns for another pair.
SetChangesOnlyItsPair ==
    call.op = "set" => call.changed \subseteq {<<call.owner, call.repo>>}

\* C17: clearing the cache is safe in every state: after Clear, GetRepoInfo
\* misses for every pair, and the cache keeps working: on an enabled cache, a
\* later set followed by a get of the same pair within the duration hits with
\* what was set.
ClearKeepsCacheWorking ==
    /\ call.op = "clear" =>
          \A p \in CachePairs :
              ~GetRepoInfo(config.NoCache, cache, cacheKey(p[1], p[2]), now).hit
    /\ (/\ call.cleared
        /\ ~config.NoCache
        /\ GetFollowsSet
        /\ call.at - call.after.at <= CacheDuration) => ReturnsWhatWasSet

\* C18: on a disabled cache every operation is a no-op: after any sequence of
\* set, clear, clean-expired and get calls, a get returns a miss with no
\* metadata and an empty version, no call has returned an error, the entry
\* count is 0, and the cache directory is as it was, whatever it holds.
DisabledIsNoOp ==
    config.NoCache =>
        /\ call.op = "get" =>
              (~call.hit /\ call.info = <<>> /\ call.version = "")
        /\ \A p \in CachePairs :
              ~GetRepoInfo(config.NoCache, cache, cacheKey(p[1], p[2]), now).hit
        /\ call.err = ""
        /\ call.count = 0
        /\ call.changed = {}
        /\ cache = cacheAtStart
        /\ dir = DirOk

\* On a disabled cache whose directory holds an entry of an earlier run for
\* the pair, a get directly after a set for the pair has missed, after a
\* Clear.
DisabledIsNoOpWitness ==
    /\ config.NoCache
    /\ GetFollowsSet
    /\ call.cleared
    /\ cache[cacheKey(call.owner, call.repo)] # <<>>
    /\ now - cache[cacheKey(call.owner, call.repo)][1].Timestamp <= CacheDuration
    /\ ~call.hit

\* ------------------------------------------------ the resolver, called on its own

PathOtel == <<"go.opentelemetry.io", "otel">>

\* The module paths ResolveModule is called with.
ResolverPaths ==
    {PathVanity, PathGopkg, PathK8s, PathGolangX, PathOtel, PathGitHub, PathInvalid}

\* What the module proxy answers to the list request.
ProxyAnswers ==
    {HttpError, HttpStatus(200, ""), HttpStatus(404, ""), HttpStatus(410, ""),
     HttpStatus(500, "")}

\* The status codes of the redirects an HTTP client would follow.
RedirectCodes == {301, 302, 303, 307, 308}

\* What the module's host answers to ?go-get=1: the client stops at the first
\* response, so that a redirect is an answer like any other.
VanityAnswers ==
    {HttpError, HttpStatus(200, ""), HttpStatus(404, ""), HttpStatus(410, ""),
     HttpStatus(500, ""), HttpStatus(301, "")}
      \cup {HttpStatus(code, "https://elsewhere") : code \in RedirectCodes}

\* A call r.ResolveModule(ctx, path): pc is the strategy to try next, tried
\* the requests made and the strategies run so far, answers the responses to
\* the requests, ret the result once pc is "returned".
ResolverInit ==
    /\ NoAnalysis
    /\ config = ZeroConfig
    /\ now = StartTime
    /\ cache = EmptyCache
    /\ cacheAtStart = cache
    /\ dir = DirOk
    /\ call \in {[op |-> "ResolveModule", path |-> path, pc |-> "start",
                  tried |-> <<>>, answers |-> <<>>, ret |-> <<>>] :
                    path \in ResolverPaths}

\* ResolveModule up to its first strategy
ResolveModuleStart ==
    /\ call.op = "ResolveModule"
    /\ call.pc = "start"
    /\ call' = IF ~ParseModulePath(call.path).IsValid
               THEN [call EXCEPT !.pc = "returned",
                                 !.ret = <<[Status |-> StatusNotFound,
                                            HostingProvider |-> "",
                                            Details |-> "Invalid module path"]>>]
               ELSE [call EXCEPT !.pc = "proxy"]
    /\ UNCHANGED <<analysisVars, cacheAtStart, now, cache, dir>>

\* if resolved := r.tryGoModuleProxy(ctx, modulePath); resolved != nil
TryGoModuleProxy ==
    /\ call.op = "ResolveModule"
    /\ call.pc = "proxy"
    /\ \E resp \in ProxyAnswers :
          call' = [call EXCEPT !.tried = Append(@, "proxy"),
                               !.answers = Append(@, resp),
                               !.ret = tryGoModuleProxy(resp),
                               !.pc = IF tryGoModuleProxy(resp) # <<>>
                                      THEN "returned" ELSE "https"]
    /\ UNCHANGED <<analysisVars, cacheAtStart, now, cache, dir>>

\* One iteration of tryVanityURL's loop: the request with the scheme in pc
TryVanityURL ==
    /\ call.op = "ResolveModule"
    /\ call.pc \in {"https", "http"}
    /\ \E resp \in VanityAnswers :
          call' = [call EXCEPT !.tried = Append(@, call.pc),
                               !.answers = Append(@, resp),
                               !.ret = tryVanityScheme(resp, call.pc),
                               !.pc = IF tryVanityScheme(resp, call.pc) # <<>>
                                      THEN "returned"
                                      ELSE IF call.pc = "https" THEN "http"
                                      ELSE "patterns"]
    /\ UNCHANGED <<analysisVars, cacheAtStart, now, cache, dir>>

\* if resolved := r.tryWellKnownPatterns(modulePath, moduleInfo); resolved != nil
TryWellKnownPatterns ==
    /\ call.op = "ResolveModule"
    /\ call.pc = "patterns"
    /\ call' = [call EXCEPT !.tried = Append(@, "patterns"),
                            !.ret = <<tryWellKnownPatterns(call.path,
                                          ParseModulePath(call.path))>>,
                            !.pc = "returned"]
    /\ UNCHANGED <<analysisVars, cacheAtStart, now, cache, dir>>

ResolverNext ==
    \/ ResolveModuleStart
    \/ TryGoModuleProxy
    \/ TryVanityURL
    \/ TryWellKnownPatterns

ResolverSpec == ResolverInit /\ [][ResolverNext]_vars

\* The order of the strategies: the package index, the vanity URL by HTTPS and
\* by HTTP, the well-known patterns.
StrategyOrder == <<"proxy", "https", "http", "patterns">>

\* The request of the k-th step failed: a network error or a timeout.
RequestFailed(k) == k <= Len(call.answers) /\ call.answers[k].kind = "error"

\* C24: the resolver tries its strategies in the order package index, vanity
\* URL (HTTPS, then HTTP), well-known patterns; a later strategy is tried
\* only when every earlier one has produced no result, that is when the call
\* has not returned; the first result produced is the one returned; a request
\* that failed is no result, so that the strategy whose request failed is
\* never the one the call returns from and the resolution goes on with the
\* next one; and the call returns a result for every path and every answer.
StrategiesInOrder ==
    call.op = "ResolveModule" =>
        /\ Len(call.tried) <= Len(StrategyOrder)
        /\ \A k \in 1..Len(call.tried) : call.tried[k] = StrategyOrder[k]
        /\ (call.pc # "returned") = (call.ret = <<>>)
        /\ call.pc \notin {"start", "returned"} =>
              /\ Len(call.tried) < Len(StrategyOrder)
              /\ call.pc = StrategyOrder[Len(call.tried) + 1]
        /\ \A k \in 1..Len(call.tried) :
              RequestFailed(k) =>
                  \/ k < Len(call.tried)
                  \/ call.pc = StrategyOrder[k + 1]
        /\ (call.pc = "returned" /\ call.tried # <<>>) =>
              call.ret[1].HostingProvider =
                  CASE call.tried[Len(call.tried)] = "proxy" -> "Go Module Proxy"
                    [] call.tried[Len(call.tried)] \in {"https", "http"} -> "Vanity URL"
                    [] OTHER -> tryWellKnownPatterns(call.path,
                                    ParseModulePath(call.path)).HostingProvider

\* The package index and both vanity requests have failed, and the call has
\* returned the result of the well-known patterns for gopkg.in/yaml.v3.
StrategiesInOrderWitness ==
    /\ call.op = "ResolveModule"
    /\ call.pc = "returned"
    /\ call.path = PathGopkg
    /\ call.tried = StrategyOrder
    /\ \A k \in 1..3 : RequestFailed(k)
    /\ call.ret[1].Status = StatusActive

\* C25: the vanity-URL probe never follows a redirect: it asks by HTTPS before
\* HTTP, it makes one request per scheme, and every redirect response it
\* receives ends the call with status redirect and the target location; a 200
\* response ends it with status active and a 404 or 410 response with status
\* not_found.
VanityReportsEveryRedirect ==
    call.op = "ResolveModule" =>
        \A k \in 1..Len(call.answers) :
            (call.tried[k] \in {"https", "http"} /\ call.answers[k].kind = "status") =>
                LET resp == call.answers[k]
                    ended(status) ==
                        /\ k = Len(call.tried)
                        /\ call.pc = "returned"
                        /\ call.ret[1].Status = status
                IN  /\ call.tried[k] = "http" => call.tried[k - 1] = "https"
                    /\ resp.status \in RedirectCodes =>
                          /\ ended(StatusRedirect)
                          /\ call.ret[1].Details = "Redirects to " \o resp.location
                    /\ resp.status = 200 => ended(StatusActive)
                    /\ resp.status \in {404, 410} => ended(StatusNotFound)

\* C26: the well-known-pattern strategy uses the prefix registry of the
\* module-path classifier: a path gets status active from the strategy iff
\* isWellKnownGoModule holds of it, and every other path gets status unknown.
PatternsUseClassifierRegistry ==
    (/\ call.op = "ResolveModule"
     /\ call.pc = "returned"
     /\ Len(call.tried) = Len(StrategyOrder)) =>
        /\ (call.ret[1].Status = StatusActive) = isWellKnownGoModule(call.path)
        /\ ~isWellKnownGoModule(call.path) => call.ret[1].Status = StatusUnknown

\* ------------------------------------------------------- retraction ranges

\* The semantic version a string is, <<>> when it is none: the leading 'v'
\* is part of a semantic version here.
VersionOf(v) ==
    CASE v = "v1.0.0" -> <<1, 0, 0, 1>>
      [] v = "v1.0.9" -> <<1, 0, 9, 1>>
      [] v = "v1.1.0" -> <<1, 1, 0, 1>>
      [] v = "v1.1.5" -> <<1, 1, 5, 1>>
      [] v = "v1.2.0" -> <<1, 2, 0, 1>>
      [] v = "v1.2.1" -> <<1, 2, 1, 1>>
      [] v = "v2.0.0" -> <<2, 0, 0, 1>>
      [] OTHER -> <<>>

\* low <= v <= high in semantic-version order, all three being versions
Within(v, low, high) ==
    /\ VersionOf(v) # <<>> /\ VersionOf(low) # <<>> /\ VersionOf(high) # <<>>
    /\ ~StrictlyOlder(VersionOf(v), VersionOf(low))
    /\ ~StrictlyOlder(VersionOf(high), VersionOf(v))

\* C27: versionInRange is inclusive at both bounds: it answers true iff the
\* version and both bounds are valid semantic versions and low <= v <= high;
\* [v1.1.0, v1.2.0] holds v1.1.0, v1.1.5 and v1.2.0 and holds neither v1.0.9
\* nor v1.2.1; a version or a bound that is not valid is never a member.
InRangeInclusive ==
    (call.op = "versionInRange" /\ call.done) =>
        /\ call.ret = Within(call.version, call.low, call.high)
        /\ (call.low = "v1.1.0" /\ call.high = "v1.2.0") =>
              /\ call.version \in {"v1.1.0", "v1.1.5", "v1.2.0"} => call.ret
              /\ call.version \in {"v1.0.9", "v1.2.1"} => ~call.ret
        /\ {call.version, call.low, call.high} \cap {"1.1.5", "invalid"} # {} =>
              ~call.ret

\* versionInRange has answered true for the version that is the upper bound.
InRangeInclusiveWitness ==
    /\ call.op = "versionInRange"
    /\ call.done
    /\ call.low = "v1.1.0"
    /\ call.high = "v1.2.0"
    /\ call.version = "v1.2.0"
    /\ call.ret

\* The text of the comment lines directly above line k, joined by a blank.
RECURSIVE CommentsAbove(_, _)
CommentsAbove(lines, k) ==
    IF k = 0 \/ lines[k] = <<>> THEN ""
    ELSE IF lines[k][1] # "//" THEN ""
    ELSE LET before == CommentsAbove(lines, k - 1)
             text == joinWords(Tail(lines[k]))
         IN  IF before = "" THEN text ELSE before \o " " \o text

\* The words of a retract line between the word retract and the inline comment
DirectiveWords(line) ==
    LET rest == Tail(line)
    IN  IF \E k \in 1..Len(rest) : rest[k] = "//"
        THEN SubSeq(rest, 1, (CHOOSE k \in 1..Len(rest) :
                                 rest[k] = "//" /\ \A j \in 1..(k - 1) : rest[j] # "//") - 1)
        ELSE rest

\* The inline comment of a retract line
InlineComment(line) ==
    joinWords(SubSeq(line, Len(DirectiveWords(line)) + 3, Len(line)))

\* Line k of the file is a single-line retract directive: a version or a range
IsDirective(lines, k) ==
    /\ Len(lines[k]) >= 2
    /\ lines[k][1] = "retract"
    /\ LET words == DirectiveWords(lines[k])
       IN  \/ Len(words) = 1 /\ VersionOf(words[1]) # <<>>
           \/ Len(words) = 5 /\ words[1] = "[" /\ words[3] = "," /\ words[5] = "]"

\* The retraction of the directive on line k: its range, and as its reason the
\* comment lines directly above it or else its inline comment
DirectiveOf(lines, k) ==
    LET words == DirectiveWords(lines[k])
        above == CommentsAbove(lines, k - 1)
    IN  [Low |-> IF Len(words) = 1 THEN words[1] ELSE words[2],
         High |-> IF Len(words) = 1 THEN words[1] ELSE words[4],
         Reason |-> IF above # "" THEN above ELSE InlineComment(lines[k])]

\* The directives of a file of single-line directives, in file order
DirectivesOf(lines) ==
    LET IsOne(k) == IsDirective(lines, k)
        places == SelectSeq([k \in 1..Len(lines) |-> k], IsOne)
    IN  [n \in 1..Len(places) |-> DirectiveOf(lines, places[n])]

\* C28: parseRetractions yields the retract directives in file order; a block
\* yields exactly the ranges and reasons of the same directives written as
\* single-line retract directives; each reason is the comment lines directly
\* above the directive or else its inline comment; and the parser leaves the
\* block at the closing parenthesis, so that a line after it is a directive
\* only with the word retract.
BlockEqualsSingleLines ==
    (call.op = "parseRetractions" /\ call.done) =>
        /\ call.ret.err = ""
        /\ call.ret.retractions =
              parseRetractions(SingleForm(call.body, call.tail)).retractions
        /\ call.ret.retractions = DirectivesOf(SingleForm(call.body, call.tail))

\* A block of a commented version, a version with an inline comment and a
\* range, followed by a line with a version alone: three retractions.
BlockEqualsSingleLinesWitness ==
    /\ call.op = "parseRetractions"
    /\ call.done
    /\ call.body = <<<<"//", "a">>, <<"v1.0.0">>, <<"v1.0.0", "//", "c">>>>
    /\ call.tail = <<<<"v2.0.0">>>>
    /\ Len(call.ret.retractions) = 2
    /\ call.ret.retractions[1].Reason = "a"
    /\ call.ret.retractions[2].Reason = "c"

\* The manifest of the answer cannot be read as a go.mod file.
Malformed(lines) ==
    \E k \in 1..Len(lines) : lines[k] \in {LineTooLong, <<"%%">>}

\* C29: for a missing or malformed manifest CheckRetraction reports not
\* retracted and returns no error, at every step: the module has no latest
\* version (the answer to @latest is not 200 or names no version), the
\* manifest is missing (the answer to .mod is not 200), the manifest cannot
\* be parsed.  The requests themselves have all been answered.
MissingOrMalformedIsNotRetracted ==
    (/\ call.op = "CheckRetraction"
     /\ call.done
     /\ call.latest.kind # "error"
     /\ \/ call.latest.status # 200
        \/ call.latest.version = ""
        \/ /\ call.mod.kind # "error"
           /\ call.mod.status # 200 \/ Malformed(call.mod.lines)) =>
        /\ call.ret.err = ""
        /\ ~call.ret.info.IsRetracted

\* C30: a rate-limit response of the GitHub API is kept apart from not found:
\* GetRepositoryInfo returns an error for it that is not the error of another
\* failure, no RepoInfo with Exists false, and the status made from it is not
\* not_found.
RateLimitIsNotNotFound ==
    (/\ call.op = "analyzeRepository"
     /\ call.done
     /\ call.resp = RespError(RateLimited)) =>
        /\ GetRepositoryInfo(call.resp, call.commits).info = <<>>
        /\ GetRepositoryInfo(call.resp, call.commits).err #
              GetRepositoryInfo(RespError("network error"), call.commits).err
        /\ call.ret # StatusNotFoundPopular

\* -------------------------------------------------------------- the summary

\* How many results of the list rs satisfy P.
CountOf(rs, P(_)) == Cardinality({k \in 1..Len(rs) : P(rs[k])})

DocumentedExitCode(toolError, rs, noExitCode) ==
    IF toolError THEN 2
    ELSE IF (\E k \in 1..Len(rs) : rs[k].IsUnmaintained) /\ ~noExitCode THEN 1
    ELSE 0

\* C32: a run exits with code 0 when no verdict is unmaintained or when
\* no-exit-code is set, with code 1 when at least one verdict is unmaintained
\* and no-exit-code is not set, and with code 2 only on a tool error; the code
\* the formatter hands to os.Exit at the end of a run follows the same rule.
ExitCodeOfRun ==
    /\ (call.op = "main" /\ call.done) =>
          call.ret = DocumentedExitCode(call.toolError, call.results, call.noExitCode)
    /\ (call.op = "ShouldExit" /\ call.done) =>
          call.ret = DocumentedExitCode(FALSE, call.results, call.noExitCode)

\* ------------------------------------------- the construction of the analyzer

\* What api.github.com answers to the request of ValidateToken for the
\* repository golang/go: a status with the X-RateLimit-Remaining header, or no
\* response at all.
ProbeAnswer(kind, status, remaining) ==
    [kind |-> kind, status |-> status, remaining |-> remaining]

NoProbe == ProbeAnswer("none", 0, "")

ProbeAnswers ==
    {ProbeAnswer("status", 200, "59"), ProbeAnswer("status", 401, "59"),
     ProbeAnswer("status", 403, "0"), ProbeAnswer("status", 403, "59"),
     ProbeAnswer("status", 404, "59"), ProbeAnswer("status", 500, "59"),
     ProbeAnswer("error", 0, "")}

\* Client.ValidateToken: the error, "" for nil
ValidateToken(answer) ==
    IF answer.kind = "status" /\ answer.status # 200
    THEN CASE answer.status = 401 -> "invalid or expired GitHub token"
           [] answer.status = 403 ->
                IF answer.remaining = "0" THEN "GitHub API rate limit exceeded"
                ELSE "GitHub token lacks necessary permissions to access " \o
                     "public repositories"
           [] OTHER -> ""
    ELSE ""

\* A NewClient that does not validate the token.
NewClientUnvalidated(token, answer) ==
    IF token = "" THEN "GitHub token is required" ELSE ""

\* github.NewClient: the error, "" for nil
NewClient(token, answer) ==
    IF token = "" THEN "GitHub token is required"
    ELSE IF ValidateToken(answer) # ""
    THEN "GitHub token validation failed: " \o ValidateToken(answer)
    ELSE ""

\* analyzeProject has parsed go.mod and is about to construct the analyzer
\* from the flags; the cache directory is as earlier runs left it.
RunInit ==
    /\ deps \in UNION {[1..n -> DepSet] : n \in 0..1}
    /\ config \in {[ZeroConfig EXCEPT !.AsyncMode = a, !.NoCache = n, !.Token = t] :
                      a \in BOOLEAN, n \in BOOLEAN, t \in {"", ValidToken}}
    /\ goModWhy = FALSE
    /\ now = StartTime
    /\ ctxDone = FALSE
    /\ cache \in InitialCaches
    /\ cacheAtStart = cache
    /\ dir = DirOk
    /\ call = NoCall
    /\ world = [k \in ReqKinds \X Targets |-> Unasked]
    /\ pc = "new"
    /\ cur = 0
    /\ batches = [k \in Tiers |-> <<>>]
    /\ unit = [i \in Indices |-> IdleUnit]
    /\ semaphore = [k \in Tiers |-> 0]
    /\ resultsChan = [k \in Tiers |-> <<>>]
    /\ collected = 0
    /\ results = <<>>
    /\ writes = [i \in Indices |-> <<>>]
    /\ access = [i \in Indices |-> NoAccess]

\* analyzer.NewAnalyzer(config) in analyzeProject: github.NewClient, whose
\* error ends the run; then cache.NewCache and CleanExpired, whose error is
\* ignored.  AnalyzeModule is called on the analyzer it returns.
NewAnalyzer ==
    /\ pc = "new"
    /\ \E answer \in (IF config.Token = "" THEN {NoProbe} ELSE ProbeAnswers) :
          LET err == NewClient(config.Token, answer)
          IN  IF err # ""
              THEN /\ pc' = "failed"
                   /\ call' = [op |-> "NewAnalyzer", probe |-> answer,
                               err |-> "failed to create GitHub client: " \o err]
                   /\ UNCHANGED cache
              ELSE /\ pc' = "start"
                   /\ call' = [op |-> "NewAnalyzer", probe |-> answer, err |-> ""]
                   /\ cache' = CleanExpired(config.NoCache, cache, dir, now).cache
    /\ UNCHANGED <<deps, config, goModWhy, cacheAtStart, now, ctxDone, world, cur,
                   batches, unit, semaphore, resultsChan, collected, results, writes,
                   access, dir>>

RunNext ==
    \/ NewAnalyzer
    \/ Next

RunSpec == RunInit /\ [][RunNext]_vars

\* The credential is missing, or the provider has refused it.
CredentialRefused ==
    \/ config.Token = ""
    \/ /\ call.probe.kind = "status"
       /\ call.probe.status \in {401, 403}

RepositoryRequest(route) == IF route = "thirdparty" THEN "provider" ELSE "repo"

\* The unit of index i has fetched its repository from the hosting platform,
\* which marks it archived.
ArchivedOnPlatform(i) ==
    /\ Ended(i)
    /\ unit[i].route \in {"github", "mapping", "thirdparty"}
    /\ access[i].net
    /\ ~access[i].failed
    /\ LET resp == world[<<RepositoryRequest(unit[i].route), targetOf(deps[i])>>]
       IN  resp.kind = "ok" /\ resp.IsArchived

\* C34: a repository that its hosting platform marks archived is classified
\* unmaintained with reason archived, for GitHub, GitLab and Bitbucket alike.
ArchivedOnEveryProvider ==
    \A i \in Indices :
        ArchivedOnPlatform(i) =>
            /\ unit[i].result.IsUnmaintained
            /\ unit[i].result.Reason = ReasonArchived

\* ------------------------------------------------- the termination of a tier

\* AnalyzeModule is called in concurrent mode, with a concurrency that is
\* negative, zero or up to MaxConcurrency, or in sequential mode, on a go.mod
\* of up to MaxDeps requirements without replace directive; the cache
\* directory is empty or holds a fresh entry of github.com/a/b.
FairInit ==
    /\ deps \in {ds \in UNION {[1..n -> {d \in BatchDepSet : ~d.Replace}] :
                                  n \in 0..MaxDeps} : IsInjective(ds)}
    /\ config \in {[ZeroConfig EXCEPT !.AsyncMode = TRUE, !.Concurrency = n,
                                      !.Token = ValidToken] :
                      n \in -1..MaxConcurrency}
                    \cup {[ZeroConfig EXCEPT !.Token = ValidToken]}
    /\ goModWhy = FALSE
    /\ now = StartTime
    /\ ctxDone = FALSE
    /\ cache \in InitialCaches
    /\ cacheAtStart = cache
    /\ BatchInputs(<<1, 2>>, config, goModWhy, cache)
    /\ dir = DirOk
    /\ call = NoCall
    /\ world = [k \in ReqKinds \X Targets |-> Unasked]
    /\ pc = "start"
    /\ cur = 0
    /\ batches = [k \in Tiers |-> <<>>]
    /\ unit = [i \in Indices |-> IdleUnit]
    /\ semaphore = [k \in Tiers |-> 0]
    /\ resultsChan = [k \in Tiers |-> <<>>]
    /\ collected = 0
    /\ results = <<>>
    /\ writes = [i \in Indices |-> <<>>]
    /\ access = [i \in Indices |-> NoAccess]

\* The scheduler runs every goroutine that can take a step, and every
\* classification call returns: every request is answered or fails.
Fairness ==
    /\ WF_vars(AnalyzeModule \/ Dispatch \/ Collect \/ SeqNext \/ SeqReturn)
    /\ WF_vars(\E i \in Indices : Acquire(i) \/ Release(i))
    /\ WF_vars(\E i \in Indices : StartUnit(i) \/ Respond(i))

FairSpec == FairInit /\ [][Next]_vars /\ Fairness

\* C35: provided every classification call returns, processBatch returns for
\* every tier it is called for and every goroutine it started ends, none
\* left at the semaphore or at the results channel, for every batch size and
\* every configured concurrency, zero and negative included: AnalyzeModule
\* gets through its three tiers and returns, and every goroutine has ended
\* by then or ends after it.
TierTerminates ==
    (pc = "start") ~> (pc = "done" /\ \A i \in Indices : unit[i].pc = "exited")

\* processBatch has returned for the third tier, which held two dependencies
\* and whose semaphore had room for one token, concurrency/2 being 0.
TierTerminatesWitness ==
    /\ pc = "done"
    /\ config.Concurrency = 1
    /\ Len(batches[3]) = 2
    /\ batchConcurrency(3, config) = 1
    /\ \A i \in Indices : unit[i].pc = "exited"

\* ------------------------------------------------ the clock during an analysis

\* AnalyzeModule is called with the cache enabled, in either mode, on a go.mod
\* that requires nothing or one module of the repository github.com/a/b; the
\* cache directory is empty or holds an entry of that repository, written
\* CacheDuration ago or earlier.
ClockInit ==
    /\ deps \in UNION {[1..n -> {d \in BatchDepSet :
                                    /\ ParseModulePath(d.Path).IsGitHub
                                    /\ ~d.Replace}] : n \in 0..1}
    /\ config \in {[ZeroConfig EXCEPT !.AsyncMode = a, !.Token = ValidToken] :
                      a \in BOOLEAN}
    /\ goModWhy = FALSE
    /\ now = StartTime
    /\ ctxDone = FALSE
    /\ cache \in InitialCaches
    /\ cacheAtStart = cache
    /\ dir = DirOk
    /\ call = NoCall
    /\ world = [k \in ReqKinds \X Targets |-> Unasked]
    /\ pc = "start"
    /\ cur = 0
    /\ batches = [k \in Tiers |-> <<>>]
    /\ unit = [i \in Indices |-> IdleUnit]
    /\ semaphore = [k \in Tiers |-> 0]
    /\ resultsChan = [k \in Tiers |-> <<>>]
    /\ collected = 0
    /\ results = <<>>
    /\ writes = [i \in Indices |-> <<>>]
    /\ access = [i \in Indices |-> NoAccess]

\* Time passes while AnalyzeModule runs: every time.Since and time.Now reads
\* the clock anew.
ClockTick ==
    /\ pc # "done"
    /\ now < StartTime + MaxTicks
    /\ now' = now + 1
    /\ UNCHANGED <<deps, config, goModWhy, cacheAtStart, ctxDone, cache, world, pc, cur,
                   batches, unit, semaphore, resultsChan, collected, results, writes,
                   access, dir, call>>

ClockNext ==
    \/ Next
    \/ ClockTick

ClockSpec == ClockInit /\ [][ClockNext]_vars

\* C36: a dependency that the partition loop puts with the cached
\* dependencies is classified without any request to a provider.
CachedTierIsOffline ==
    \A i \in Indices :
        (config.AsyncMode /\ pc # "start" /\ i \in BatchIndices(1)) => ~access[i].net

\* ------------------------------------------------- the reasons of the verdicts

\* The reasons the summary counts for the unmaintained dependencies.
CountedReasons ==
    {ReasonArchived, ReasonNotFound, ReasonStaleInactive, ReasonOutdated}

\* C37: every verdict AnalyzeModule returns flagged unmaintained carries one
\* of the reasons archived, not found, stale-inactive and outdated version,
\* so that the four per-reason counts of the summary add up to its
\* unmaintained count.
FlaggedHasCountedReason ==
    pc = "done" =>
        /\ \A i \in 1..Len(results) :
              results[i].IsUnmaintained => results[i].Reason \in CountedReasons
        /\ LET st == GetSummary(results)
           IN  st.ArchivedCount + st.NotFoundCount + st.StaleInactiveCount
                 + st.OutdatedCount = st.UnmaintainedCount

\* ---------------------------------------------- the identity of the verdicts

\* C38: every verdict AnalyzeModule returns carries the path, the declared
\* version and the direct/indirect flag of its dependency, direct iff the
\* dependency is not marked indirect; so do the verdicts made for a
\* classification that failed.
VerdictCarriesDependency ==
    pc = "done" =>
        \A i \in 1..Len(results) :
            /\ results[i].Package = deps[i].Path
            /\ results[i].CurrentVersion = deps[i].Version
            /\ results[i].IsDirect = ~deps[i].Indirect

\* ------------------------------------------------ the popular-package cache

UnmaintainedStatuses == {StatusArchived, StatusInactive, StatusNotFoundPopular}

\* The reason that matches the status of an entry.
ReasonOfStatus(status) ==
    CASE status = StatusArchived -> ReasonArchived
      [] status = StatusInactive -> ReasonStaleInactive
      [] status = StatusNotFoundPopular -> ReasonNotFound
      [] OTHER -> ReasonActive

\* The call classifies a dependency without a replace directive whose path
\* the popular index holds.
PopularCall ==
    /\ call.op = "AnalyzeDependency"
    /\ call.done
    /\ ~call.dep.Replace
    /\ Lookup(call.dep.Path) # <<>>

\* C39: a dependency without a replace directive whose path is in the
\* popular-package cache is classified from that entry alone: its verdict is
\* unmaintained iff the status of the entry is archived, inactive or
\* not-found, with the reason of that status, and AnalyzeDependency returns
\* without having read or written a disk-cache entry and without a request
\* to a provider or to the resolver.
PopularFromEntryAlone ==
    PopularCall =>
        LET entry == Lookup(call.dep.Path)[1]
            step == call.ret
        IN  /\ step.done
            /\ ~step.failed
            /\ step.result.IsUnmaintained <=> entry.Status \in UnmaintainedStatuses
            /\ step.result.IsUnmaintained =>
                   step.result.Reason = ReasonOfStatus(entry.Status)
            /\ step.result.Package = call.dep.Path
            /\ ~step.reads
            /\ step.cache = call.cache
            /\ step.writeErr = ""
            /\ step.req = ""

\* An inactive entry has classified a dependency while the cache is enabled
\* and holds an entry.
PopularFromEntryAloneWitness ==
    /\ PopularCall
    /\ call.dep.Path = PathPopularInactive
    /\ ~call.cfg.NoCache
    /\ call.cache # EmptyCache
    /\ call.ret.result.IsUnmaintained
    /\ call.ret.result.Reason = ReasonStaleInactive

\* ------------------------------------------- concurrent calls on one entry

\* The goroutines of a tier whose dependencies are of the repository a/b, as
\* github.com/a/b and github.com/a/b/sub are.
Goroutines == 1..2

RacePair == <<"a", "b">>

RaceKey == cacheKey(RacePair[1], RacePair[2])

\* The entry an earlier run has left for a/b, which expires at the second
\* tick of the clock.
RaceInit ==
    /\ NoAnalysis
    /\ config = [ZeroConfig EXCEPT !.AsyncMode = TRUE, !.Token = ValidToken]
    /\ now = StartTime
    /\ dir = DirOk
    /\ cache \in {NoFiles, [NoFiles EXCEPT ![RaceKey] = <<EarlierEntry>>]}
    /\ cacheAtStart = cache
    /\ call = [op |-> "fetchRepoWithCache",
               at |-> [g \in Goroutines |-> "GetRepoInfo"],
               hit |-> [g \in Goroutines |-> FALSE],
               lastSet |-> <<>>]

\* GetRepoInfo up to its decision: os.ReadFile, json.Unmarshal and the
\* comparison of the age with the duration.  A missing file is a miss, an
\* expired entry leads to os.Remove, any other entry is a hit.
GetRepoInfoRead(g) ==
    /\ call.at[g] = "GetRepoInfo"
    /\ call' =
         IF config.NoCache \/ cache[RaceKey] = <<>>
         THEN [call EXCEPT !.at[g] = "GetRepositoryInfo"]
         ELSE IF entryExpired(cache[RaceKey][1], now)
         THEN [call EXCEPT !.at[g] = "Remove"]
         ELSE [call EXCEPT !.at[g] = "returned", !.hit[g] = TRUE]
    /\ UNCHANGED <<analysisVars, cacheAtStart, now, cache, dir>>

\* os.Remove(filePath) of GetRepoInfo, which then returns a miss: the file of
\* the key is removed, whatever it holds by now.
GetRepoInfoRemove(g) ==
    /\ call.at[g] = "Remove"
    /\ cache' = [cache EXCEPT ![RaceKey] = <<>>]
    /\ call' = [call EXCEPT !.at[g] = "GetRepositoryInfo"]
    /\ UNCHANGED <<analysisVars, cacheAtStart, now, dir>>

\* fetchRepoWithCache after a miss: GetRepositoryInfo fails and the error is
\* returned, or it answers and SetRepoInfo writes the entry.
FetchAndSet(g) ==
    /\ call.at[g] = "GetRepositoryInfo"
    /\ \E payload \in {<<>>} \cup CachePayloads :
          IF payload = <<>>
          THEN /\ call' = [call EXCEPT !.at[g] = "returned"]
               /\ UNCHANGED cache
          ELSE /\ cache' = SetRepoInfo(config.NoCache, cache, dir, RaceKey,
                                       payload[1], payload[2], now)
               /\ call' = [call EXCEPT !.at[g] = "returned", !.lastSet = <<now>>]
    /\ UNCHANGED <<analysisVars, cacheAtStart, now, dir>>

RaceNext ==
    \/ \E g \in Goroutines : GetRepoInfoRead(g)
    \/ \E g \in Goroutines : GetRepoInfoRemove(g)
    \/ \E g \in Goroutines : FetchAndSet(g)
    \/ Tick

RaceSpec == RaceInit /\ [][RaceNext]_vars

\* C40: an entry written by SetRepoInfo is not removed by a GetRepoInfo of
\* the same key that started earlier and had read the expired entry before
\* it: once a SetRepoInfo of the key has returned, and while the age of its
\* entry does not exceed the duration, a GetRepoInfo of the key hits (Clear
\* and CleanExpired are not called here).
SetSurvivesEarlierGet ==
    (/\ call.op = "fetchRepoWithCache"
     /\ call.lastSet # <<>>
     /\ now - call.lastSet[1] <= CacheDuration)
    => GetRepoInfo(config.NoCache, cache, RaceKey, now).hit

====
